---- MODULE Spec2Model ----
(***************************************************************************)
(* Repo-Health Scorecard backend: the metric calculator, the score         *)
(* aggregator and the scoring request handler (getRepoScore).              *)
(*                                                                         *)
(* JavaScript values are tagged records (JNull, JUndef, JNum, JBool, JStr, *)
(* JArr, JObject) so that truthiness, null checks and type guards behave as   *)
(* in the source.  JavaScript numbers are exact rationals [n, d] with      *)
(* d > 0, kept in lowest terms; NaN is the record with d = 0.              *)
(***************************************************************************)
EXTENDS Integers, Sequences, FiniteSets, TLC

VARIABLES
    weights,      \* scoreAggregator.js: the module-level weight map
    metrics,      \* the metric object under construction / handed to aggregateScore
    score,        \* result of the last aggregateScore call (NONE before any call)
    normCall,     \* the last normalise call   [key, raw, out]
    prevNormCall, \* the normalise call before it
    calcCall,     \* the last metric-calculator call [fn, arg, out] and what the call
                  \* left in the object it was handed [left]
    earlierCall,  \* an aggregateScore call a caller kept [metrics, score] and which
                  \* calls came after it [aggregated, normalised] (NONE if none kept)
    pc,           \* getRepoScore: "idle" | "awaiting" | "done" | "rejected"
    calls,        \* getRepoScore: the eight promises of `calls`, by task name
    api,          \* the name of the answer the collaborator gave each task ("none" before)
    errors,       \* getRepoScore: the errors object (a function on its own keys)
    sent,         \* number of res.json calls for the current request
    response,     \* the body handed to res.json (NONE before)
    nextCalled,   \* whether next(err) was called for the current request
    second        \* a second getRepoScore call in progress at the same time: its own
                  \* [pc, calls, api, metrics, errors, response] (NONE if there is none)

vars == <<weights, metrics, score, normCall, prevNormCall, calcCall, earlierCall,
          pc, calls, api, errors, sent, response, nextCalled, second>>

NONE == [t |-> "none"]

----------------------------------------------------------------------------
(* Exact numbers *)

\* Every operator below binds its arguments once (x \in {a}) before using them, so
\* that an argument is evaluated a single time however often the body names it.

RECURSIVE GCD(_, _)
GCD(a, b) == IF b = 0 THEN a ELSE CHOOSE g \in {GCD(b, r) : r \in {a % b}} : TRUE

Abs(x) == IF x < 0 THEN -x ELSE x

NaN == [n |-> 0, d |-> 0]

IsNaN(r) == r.d = 0

\* n/d in lowest terms with a positive denominator
Rat(n, d) ==
    CHOOSE r \in {IF y = 0 THEN NaN
                  ELSE CHOOSE q \in {[n |-> (IF y < 0 THEN -x ELSE x) \div g,
                                      d |-> Abs(y) \div g] : g \in {GCD(Abs(x), Abs(y))}} : TRUE
                  : x \in {n}, y \in {d}} : TRUE

Whole(i) == [n |-> i, d |-> 1]

RAdd(a, b) ==
    CHOOSE r \in {IF x.d = 0 \/ y.d = 0 THEN NaN ELSE Rat(x.n * y.d + y.n * x.d, x.d * y.d)
                  : x \in {a}, y \in {b}} : TRUE
RSub(a, b) ==
    CHOOSE r \in {IF x.d = 0 \/ y.d = 0 THEN NaN ELSE Rat(x.n * y.d - y.n * x.d, x.d * y.d)
                  : x \in {a}, y \in {b}} : TRUE
RMul(a, b) ==
    CHOOSE r \in {IF x.d = 0 \/ y.d = 0 THEN NaN ELSE Rat(x.n * y.n, x.d * y.d)
                  : x \in {a}, y \in {b}} : TRUE
\* JavaScript division; 0/0 is NaN (x/0 for x # 0 is +-Infinity, which no modelled call produces)
RDiv(a, b) ==
    CHOOSE r \in {IF x.d = 0 \/ y.d = 0 \/ y.n = 0 THEN NaN ELSE Rat(x.n * y.d, x.d * y.n)
                  : x \in {a}, y \in {b}} : TRUE

\* comparisons are false as soon as one side is NaN
RLe(a, b) == \E x \in {a}, y \in {b} : x.d # 0 /\ y.d # 0 /\ x.n * y.d <= y.n * x.d
RLt(a, b) == \E x \in {a}, y \in {b} : x.d # 0 /\ y.d # 0 /\ x.n * y.d < y.n * x.d
RGe(a, b) == RLe(b, a)

\* Math.min / Math.max / Math.round / Math.floor
MathMin(a, b) ==
    CHOOSE r \in {IF x.d = 0 \/ y.d = 0 THEN NaN ELSE IF RLe(x, y) THEN x ELSE y
                  : x \in {a}, y \in {b}} : TRUE
MathMax(a, b) ==
    CHOOSE r \in {IF x.d = 0 \/ y.d = 0 THEN NaN ELSE IF RLe(x, y) THEN y ELSE x
                  : x \in {a}, y \in {b}} : TRUE
MathRound(a) ==
    CHOOSE r \in {IF x.d = 0 THEN NaN ELSE Whole((2 * x.n + x.d) \div (2 * x.d))
                  : x \in {a}} : TRUE
MathFloor(a) ==
    CHOOSE r \in {IF x.d = 0 THEN NaN ELSE Whole(x.n \div x.d) : x \in {a}} : TRUE

IsInteger(r) == ~IsNaN(r) /\ r.d = 1

----------------------------------------------------------------------------
(* JavaScript values *)

JNull == [t |-> "null"]
JUndef == [t |-> "undefined"]
\* an object literal with the properties f (a record of JavaScript values)
JObject(f) == [t |-> "object", f |-> f]
\* an ISO-8601 timestamp string naming the instant `min` minutes after a fixed origin
JDate(min) == [t |-> "isodate", min |-> min]
\* what a call that throws leaves in place of its result
THROWN == [t |-> "throw"]
JNum(r) == [t |-> "number", v |-> r]
JInt(i) == JNum(Whole(i))
JBool(b) == [t |-> "boolean", v |-> b]
JStr(s) == [t |-> "string", v |-> s]
JArr(s) == [t |-> "array", v |-> s]

\* raw === null || raw === undefined
IsNullish(x) == x.t = "null" \/ x.t = "undefined"

\* the condition of `if (x)` and of `x ? a : b`
Truthy(x) ==
    CASE x.t = "null" -> FALSE
      [] x.t = "undefined" -> FALSE
      [] x.t = "boolean" -> x.v
      [] x.t = "number" -> ~IsNaN(x.v) /\ x.v.n # 0
      [] x.t = "string" -> Len(x.v) > 0
      [] OTHER -> TRUE

\* x.name for a non-nullish x: undefined unless x is an object with that property
Prop(x, name) ==
    IF x.t = "object" /\ name \in DOMAIN x.f THEN x.f[name] ELSE JUndef

\* new Date(x) as milliseconds: new Date(null) is the origin, an unparsable value NaN
DateMs(x) ==
    CASE x.t = "isodate" -> Whole(x.min * 60000)
      [] x.t = "null" -> Whole(0)
      [] x.t = "number" -> x.v
      [] OTHER -> NaN

\* the number an arithmetic operator makes of its operand
ToNumber(x) ==
    CASE x.t = "number" -> x.v
      [] x.t = "boolean" -> IF x.v THEN Whole(1) ELSE Whole(0)
      [] x.t = "null" -> Whole(0)
      [] x.t = "string" -> IF Len(x.v) = 0 THEN Whole(0) ELSE NaN
      [] x.t = "array" -> IF Len(x.v) = 0 THEN Whole(0) ELSE NaN
      [] OTHER -> NaN

----------------------------------------------------------------------------
(* scoreAggregator.js *)

MetricKeys ==
    <<"commitFreq", "issueResTime", "prReviewDuration", "contributorCount",
      "busFactor", "developerChurn", "testFolderExists", "badgeCount",
      "vulnerabilityCount", "ossfScore">>

KeySet == {MetricKeys[i] : i \in 1..Len(MetricKeys)}

\* a weight map whose ossfScore weight was raised without lowering another
weightTable_sum110 ==
    [commitFreq |-> 10, issueResTime |-> 12, prReviewDuration |-> 12,
     contributorCount |-> 8, busFactor |-> 10, developerChurn |-> 10,
     testFolderExists |-> 10, badgeCount |-> 5, vulnerabilityCount |-> 13,
     ossfScore |-> 20]

weightTable ==
    [commitFreq |-> 10, issueResTime |-> 12, prReviewDuration |-> 12,
     contributorCount |-> 8, busFactor |-> 10, developerChurn |-> 10,
     testFolderExists |-> 10, badgeCount |-> 5, vulnerabilityCount |-> 13,
     ossfScore |-> 10]

\* the vulnerabilityCount rule copied from the busFactor rule: more alerts score higher
normalise_vulnRising(metricKey, raw) ==
    LET x == ToNumber(raw) IN
    CASE metricKey = "commitFreq" -> MathMin(Whole(10), RMul(RDiv(x, Whole(30)), Whole(10)))
      [] metricKey = "issueResTime" ->
            MathMax(Whole(0), RSub(Whole(10), RMul(RSub(x, Whole(24)), Rat(10, 144))))
      [] metricKey = "prReviewDuration" ->
            MathMax(Whole(0), RSub(Whole(10), RMul(RSub(x, Whole(6)), Rat(10, 66))))
      [] metricKey = "contributorCount" -> MathMin(Whole(10), RMul(RDiv(x, Whole(200)), Whole(10)))
      [] metricKey = "busFactor" -> MathMin(Whole(10), RMul(RDiv(x, Whole(10)), Whole(10)))
      [] metricKey = "developerChurn" -> MathMax(Whole(0), RSub(Whole(10), RMul(x, Rat(1, 10))))
      [] metricKey = "testFolderExists" -> IF Truthy(raw) THEN Whole(10) ELSE Whole(0)
      [] metricKey = "badgeCount" -> MathMin(Whole(10), RMul(RDiv(x, Whole(6)), Whole(10)))
      [] metricKey = "vulnerabilityCount" -> MathMin(Whole(10), RMul(RDiv(x, Whole(10)), Whole(10)))
      [] metricKey = "ossfScore" -> x
      [] OTHER -> Whole(0)

\* normalise(metricKey, raw): the switch, one case per metric
normalise(metricKey, raw) ==
    LET x == ToNumber(raw) IN
    CASE metricKey = "commitFreq" -> MathMin(Whole(10), RMul(RDiv(x, Whole(30)), Whole(10)))
      [] metricKey = "issueResTime" ->
            MathMax(Whole(0), RSub(Whole(10), RMul(RSub(x, Whole(24)), Rat(10, 144))))
      [] metricKey = "prReviewDuration" ->
            MathMax(Whole(0), RSub(Whole(10), RMul(RSub(x, Whole(6)), Rat(10, 66))))
      [] metricKey = "contributorCount" -> MathMin(Whole(10), RMul(RDiv(x, Whole(200)), Whole(10)))
      [] metricKey = "busFactor" -> MathMin(Whole(10), RMul(RDiv(x, Whole(10)), Whole(10)))
      [] metricKey = "developerChurn" -> MathMax(Whole(0), RSub(Whole(10), RMul(x, Rat(1, 10))))
      [] metricKey = "testFolderExists" -> IF Truthy(raw) THEN Whole(10) ELSE Whole(0)
      [] metricKey = "badgeCount" -> MathMin(Whole(10), RMul(RDiv(x, Whole(6)), Whole(10)))
      [] metricKey = "vulnerabilityCount" -> MathMax(Whole(0), RSub(Whole(10), x))
      [] metricKey = "ossfScore" -> x
      [] OTHER -> Whole(0)

\* metrics[key]: a property the object does not have reads as undefined
Get(obj, key) == IF key \in DOMAIN obj THEN obj[key] ELSE JUndef

\* the forEach over Object.keys(weights), in key order, from position i with running total
RECURSIVE aggregateLoop(_, _, _, _)
aggregateLoop(w, m, i, total) ==
    IF i > Len(MetricKeys) THEN total
    ELSE LET key == MetricKeys[i]
             raw == Get(m, key)
         IN  IF key \notin DOMAIN w \/ IsNullish(raw)    \* no key of weights, or absent
             THEN aggregateLoop(w, m, i + 1, total)
             ELSE aggregateLoop(w, m, i + 1,
                     RAdd(total, RDiv(RMul(normalise(key, raw), Whole(w[key])), Whole(10))))

\* the total truncated instead of rounded to nearest
aggregateScore_floor(w, m) == MathFloor(aggregateLoop(w, m, 1, Whole(0)))

\* `total` hoisted out of the function: it starts from what the last call returned
aggregateScore_keepsTotal(w, m) ==
    MathRound(aggregateLoop(w, m, 1, IF score = NONE THEN Whole(0) ELSE score))

\* the forEach run over Object.keys(metrics): a key without a weight makes the total NaN
aggregateScore_keysOfMetrics(w, m) ==
    IF \E k \in DOMAIN m \ KeySet : ~IsNullish(m[k]) THEN NaN
    ELSE MathRound(aggregateLoop(w, m, 1, Whole(0)))

\* aggregateScore(metrics) with the module's weights w
aggregateScore(w, m) == MathRound(aggregateLoop(w, m, 1, Whole(0)))

----------------------------------------------------------------------------
(* metricsCalculator.js *)

AnyNullish(seq) == \E i \in 1..Len(seq) : IsNullish(seq[i])

\* the reduce of computeWeeklyAverage: sum + (weekObj.total || 0), from position i
RECURSIVE SumTotals(_, _, _)
SumTotals(seq, i, sum) ==
    IF i > Len(seq) THEN sum
    ELSE LET total == Prop(seq[i], "total")
         IN  SumTotals(seq, i + 1,
                       RAdd(sum, IF Truthy(total) THEN ToNumber(total) ELSE Whole(0)))

\* the mean taken over the weeks that have a total only
computeWeeklyAverage_skipMissing(commitData) ==
    IF commitData.t # "array" \/ Len(commitData.v) = 0 THEN JInt(0)
    ELSE IF AnyNullish(commitData.v) THEN THROWN
    ELSE JNum(RDiv(SumTotals(commitData.v, 1, Whole(0)),
                   Whole(Cardinality({i \in 1..Len(commitData.v) :
                                        Truthy(Prop(commitData.v[i], "total"))}))))

computeWeeklyAverage(commitData) ==
    IF commitData.t # "array" \/ Len(commitData.v) = 0 THEN JInt(0)
    ELSE IF AnyNullish(commitData.v) THEN THROWN
    ELSE JNum(RDiv(SumTotals(commitData.v, 1, Whole(0)), Whole(Len(commitData.v))))

\* Array.prototype.sort((a, b) => a - b): x goes behind every element not above it
RECURSIVE InsertAsc(_, _)
InsertAsc(x, sorted) ==
    CHOOSE r \in {IF s = << >> THEN <<e>>
                  ELSE IF RLt(e, Head(s)) THEN <<e>> \o s
                  ELSE <<Head(s)>> \o InsertAsc(e, Tail(s)) : e \in {x}, s \in {sorted}} : TRUE

RECURSIVE SortAsc(_)
SortAsc(seq) ==
    CHOOSE r \in {IF s = << >> THEN << >>
                  ELSE InsertAsc(s[Len(s)], SortAsc(SubSeq(s, 1, Len(s) - 1))) : s \in {seq}} : TRUE

\* the median that takes durations[mid] for an even count as well
MedianOfSorted_upperMiddle(durations) ==
    CHOOSE r \in {IF Len(ds) = 0 THEN Whole(0) ELSE ds[(Len(ds) \div 2) + 1] :
                  ds \in {durations}} : TRUE

\* the tail of both median functions: 0 for no durations, else the middle of the sorted ones
MedianOfSorted(durations) ==
    CHOOSE r \in {IF Len(ds) = 0 THEN Whole(0)
                  ELSE LET mid == Len(ds) \div 2
                       IN  IF Len(ds) % 2 = 0
                           THEN RDiv(RAdd(ds[mid], ds[mid + 1]), Whole(2))
                           ELSE ds[mid + 1] : ds \in {durations}} : TRUE

MsPerHour == 3600000

HoursBetween(from, to) == RDiv(RSub(DateMs(to), DateMs(from)), Whole(MsPerHour))

\* issues.filter((i) => i.closed_at).map(hours from created_at to closed_at)
RECURSIVE IssueDurations(_)
IssueDurations(seq) ==
    IF seq = << >> THEN << >>
    ELSE LET i == Head(seq)
         IN  IF Truthy(Prop(i, "closed_at"))
             THEN <<HoursBetween(Prop(i, "created_at"), Prop(i, "closed_at"))>>
                    \o IssueDurations(Tail(seq))
             ELSE IssueDurations(Tail(seq))

medianResolutionTime(issues) ==
    IF issues.t # "array" THEN THROWN          \* issues.filter is not a function
    ELSE IF AnyNullish(issues.v) THEN THROWN   \* i.closed_at of null
    ELSE JNum(MedianOfSorted(SortAsc(IssueDurations(issues.v))))

\* the map with the end taken as closed_at || merged_at
RECURSIVE PRDurations_closedFirst(_)
PRDurations_closedFirst(seq) ==
    IF seq = << >> THEN << >>
    ELSE LET pr == Head(seq)
             endDate == IF Truthy(Prop(pr, "closed_at")) THEN Prop(pr, "closed_at")
                        ELSE Prop(pr, "merged_at")
         IN  IF ~Truthy(endDate) THEN PRDurations_closedFirst(Tail(seq))
             ELSE <<HoursBetween(Prop(pr, "created_at"), endDate)>>
                    \o PRDurations_closedFirst(Tail(seq))

\* prs.map(end = merged_at || closed_at; null without an end).filter((d) => d !== null)
RECURSIVE PRDurations(_)
PRDurations(seq) ==
    IF seq = << >> THEN << >>
    ELSE LET pr == Head(seq)
             endDate == IF Truthy(Prop(pr, "merged_at")) THEN Prop(pr, "merged_at")
                        ELSE Prop(pr, "closed_at")
         IN  IF ~Truthy(endDate) THEN PRDurations(Tail(seq))
             ELSE <<HoursBetween(Prop(pr, "created_at"), endDate)>> \o PRDurations(Tail(seq))

medianPRDuration(prs) ==
    IF prs.t # "array" THEN THROWN
    ELSE IF AnyNullish(prs.v) THEN THROWN
    ELSE JNum(MedianOfSorted(SortAsc(PRDurations(prs.v))))

Contributions(c) == ToNumber(Prop(c, "contributions"))

\* sort((a, b) => b.contributions - a.contributions): stable, largest first
RECURSIVE InsertDesc(_, _)
InsertDesc(x, sorted) ==
    CHOOSE r \in {IF s = << >> THEN <<e>>
                  ELSE IF RLt(Contributions(Head(s)), Contributions(e)) THEN <<e>> \o s
                  ELSE <<Head(s)>> \o InsertDesc(e, Tail(s)) : e \in {x}, s \in {sorted}} : TRUE

RECURSIVE SortDesc(_)
SortDesc(seq) ==
    CHOOSE r \in {IF s = << >> THEN << >>
                  ELSE InsertDesc(s[Len(s)], SortDesc(SubSeq(s, 1, Len(s) - 1))) : s \in {seq}} : TRUE

RECURSIVE SumContribs(_, _, _)
SumContribs(seq, i, sum) ==
    CHOOSE r \in {IF i > Len(s) THEN t
                  ELSE SumContribs(s, i + 1, RAdd(t, Contributions(s[i]))) : s \in {seq}, t \in {sum}} : TRUE

\* the loop leaving only once the running sum is above half (> for >=)
RECURSIVE BusLoop_strict(_, _, _, _)
BusLoop_strict(sorted, total, i, acc) ==
    CHOOSE r \in {IF i > Len(s) THEN Len(s)
                  ELSE IF RLt(RDiv(t, Whole(2)), acc2) THEN i
                  ELSE BusLoop_strict(s, t, i + 1, acc2) :
                  s \in {sorted}, t \in {total}, acc2 \in {IF i > Len(sorted) THEN acc
                                        ELSE RAdd(acc, Contributions(sorted[i]))}} : TRUE

\* the for loop of estimateBusFactor, 1-based: sorted[i] is the i-th largest
RECURSIVE BusLoop(_, _, _, _)
BusLoop(sorted, total, i, acc) ==
    CHOOSE r \in {IF i > Len(s) THEN Len(s)
                  ELSE IF RGe(acc2, RDiv(t, Whole(2))) THEN i
                  ELSE BusLoop(s, t, i + 1, acc2) :
                  s \in {sorted}, t \in {total}, acc2 \in {IF i > Len(sorted) THEN acc
                                        ELSE RAdd(acc, Contributions(sorted[i]))}} : TRUE

\* [...contributors]: the elements of an array, the characters of a string
Spread(x) ==
    IF x.t = "array" THEN x.v ELSE [i \in 1..Len(x.v) |-> JStr(<<x.v[i]>>)]

estimateBusFactor(contributors) ==
    IF contributors.t \notin {"array", "string"} THEN THROWN   \* not iterable
    ELSE IF AnyNullish(Spread(contributors)) THEN THROWN
    ELSE CHOOSE r \in {JInt(BusLoop(sorted, SumContribs(sorted, 1, Whole(0)), 1, Whole(0))) :
                       sorted \in {SortDesc(Spread(contributors))}} : TRUE

LowerCase(c) ==
    CASE c = "T" -> "t" [] c = "E" -> "e" [] c = "S" -> "s"
      [] c = "B" -> "b" [] c = "A" -> "a" [] c = "D" -> "d" [] c = "G" -> "g"
      [] c = "O" -> "o"
      [] OTHER -> c

Lower(str) == [i \in 1..Len(str) |-> LowerCase(str[i])]

\* the pattern without its anchors: /tests?/i.test(name)
IsTestName_contains(name) ==
    /\ name.t = "string"
    /\ \E i \in 1..(Len(name.v) - 3) :
          Lower(SubSeq(name.v, i, i + 3)) = <<"t", "e", "s", "t">>

\* /^tests?$/i.test(name)
IsTestName(name) ==
    /\ name.t = "string"
    /\ Lower(name.v) \in {<<"t", "e", "s", "t">>, <<"t", "e", "s", "t", "s">>}

\* rootContent.some(...): stops at the first entry that matches, from position i
RECURSIVE SomeTestDir(_, _)
SomeTestDir(seq, i) ==
    IF i > Len(seq) THEN JBool(FALSE)
    ELSE IF IsNullish(seq[i]) THEN THROWN      \* entry.type of null
    ELSE IF /\ Prop(seq[i], "type") = JStr(<<"d", "i", "r">>)
            /\ IsTestName(Prop(seq[i], "name"))
         THEN JBool(TRUE)
    ELSE SomeTestDir(seq, i + 1)

existsTestFolder(rootContent) ==
    IF rootContent.t # "array" THEN THROWN     \* rootContent.some is not a function
    ELSE SomeTestDir(rootContent.v, 1)

\* the characters `.` does not match
IsLineEnd(c) == c \in {"\n", "\r"}

NoLineEnd(str, from, to) == \A i \in from..to : ~IsLineEnd(str[i])

\* the test without its i flag: /badge/.test(url)
HasBadge_caseSensitive(url) ==
    \E i \in 1..(Len(url) - 4) : SubSeq(url, i, i + 4) = <<"b", "a", "d", "g", "e">>

\* /badge/i.test(url)
HasBadge(url) ==
    \E i \in 1..(Len(url) - 4) : Lower(SubSeq(url, i, i + 4)) = <<"b", "a", "d", "g", "e">>

\* the matches of /!\[.*?\]\((.*?)\)/ that start at i: [j, k] with "](" at j and ")" at k
MatchesAt(str, i) ==
    IF i + 4 > Len(str) \/ str[i] # "!" \/ str[i + 1] # "[" THEN {}
    ELSE {jk \in ((i + 2)..(Len(str) - 2)) \X ((i + 4)..Len(str)) :
            /\ jk[2] >= jk[1] + 2
            /\ str[jk[1]] = "]" /\ str[jk[1] + 1] = "("
            /\ str[jk[2]] = ")"
            /\ NoLineEnd(str, i + 2, jk[1] - 1)
            /\ NoLineEnd(str, jk[1] + 2, jk[2] - 1)}

\* the match the lazy quantifiers take: the earliest "](", then the earliest ")"
FirstMatch(M) ==
    CHOOSE jk \in M : \A o \in M : jk[1] < o[1] \/ (jk[1] = o[1] /\ jk[2] <= o[2])

\* the while loop over regex.exec with the g flag, from lastIndex - 1 = from
RECURSIVE BadgeLoop(_, _, _)
BadgeLoop(str, from, count) ==
    CHOOSE r \in {IF f > Len(str) THEN n
                  ELSE IF M = {} THEN BadgeLoop(str, f + 1, n)
                  ELSE LET jk == FirstMatch(M)
                           url == SubSeq(str, jk[1] + 2, jk[2] - 1)
                       IN  BadgeLoop(str, jk[2] + 1, IF HasBadge(url) THEN n + 1 ELSE n) :
                  f \in {from}, n \in {count}, M \in {MatchesAt(str, from)}} : TRUE

countBadges(readmeMd) ==
    IF readmeMd.t # "string" THEN JInt(0) ELSE JInt(BadgeLoop(readmeMd.v, 1, 0))

Open == JStr(<<"o", "p", "e", "n">>)

\* the comparison made without regard to letter case
countVulnerabilities_anyCase(alerts) ==
    IF alerts.t # "array" THEN JInt(0)
    ELSE IF AnyNullish(alerts.v) THEN THROWN
    ELSE JInt(Cardinality({i \in 1..Len(alerts.v) :
                              /\ Prop(alerts.v[i], "state").t = "string"
                              /\ Lower(Prop(alerts.v[i], "state").v) = Open.v}))

countVulnerabilities(alerts) ==
    IF alerts.t # "array" THEN JInt(0)
    ELSE IF AnyNullish(alerts.v) THEN THROWN
    ELSE JInt(Cardinality({i \in 1..Len(alerts.v) : Prop(alerts.v[i], "state") = Open}))

----------------------------------------------------------------------------
(* githubService.js: each function maps what the GitHub collaborator answers to   *)
(* the fate of the promise it returns.  An answer is a response                   *)
(* [ok |-> TRUE, status, data] or an error octokit throws                         *)
(* [ok |-> FALSE, status, message]; a status is its decimal text, a message a     *)
(* sequence of string pieces (a template literal is the sequence of its parts).   *)

Fulfilled(v) == [ok |-> TRUE, value |-> v]
Rejected(msg) == [ok |-> FALSE, message |-> msg]

Response(status, data) == [ok |-> TRUE, status |-> status, data |-> data]
Thrown(status, msg) == [ok |-> FALSE, status |-> status, message |-> msg]

getCommitActivity(ans) ==
    IF ~ans.ok THEN Rejected(ans.message)
    ELSE IF ans.status # "200" THEN Rejected(<<"GitHub API returned status ", ans.status>>)
    ELSE Fulfilled(ans.data)

\* items.map((x) => ({ created_at: x.created_at, closed_at: x.closed_at }))
CreatedClosed(items) ==
    [i \in 1..Len(items) |->
        JObject([created_at |-> Prop(items[i], "created_at"),
                 closed_at |-> Prop(items[i], "closed_at")])]

listRecentClosedIssues(ans) ==
    IF ~ans.ok THEN Rejected(ans.message)
    ELSE IF ans.status # "200" THEN Rejected(<<"GitHub Search API returned ", ans.status>>)
    ELSE Fulfilled(JArr(CreatedClosed(ans.data)))

listRecentClosedPRs(ans) ==
    IF ~ans.ok THEN Rejected(ans.message)
    ELSE IF ans.status # "200" THEN Rejected(<<"GitHub Search API returned ", ans.status>>)
    ELSE Fulfilled(JArr(CreatedClosed(ans.data)))

PerPage == 100

LoginContributions(data) ==
    [i \in 1..Len(data) |->
        JObject([login |-> Prop(data[i], "login"),
                 contributions |-> Prop(data[i], "contributions")])]

\* the while (true) loop of listContributors, one answer per page requested
RECURSIVE listContributorsLoop(_, _, _)
listContributorsLoop(pages, page, contributors) ==
    LET res == pages[page] IN
    IF ~res.ok THEN Rejected(res.message)
    ELSE IF res.status # "200"
    THEN Rejected(<<"GitHub contributors API returned ", res.status>>)
    ELSE LET all == contributors \o LoginContributions(res.data)
         IN  IF Len(res.data) < PerPage THEN Fulfilled(JArr(all))
             ELSE listContributorsLoop(pages, page + 1, all)

listContributors(pages) == listContributorsLoop(pages, 1, << >>)

\* the for loop of getTestPresence over its two code-search queries
RECURSIVE getTestPresenceLoop(_, _)
getTestPresenceLoop(answers, q) ==
    IF q > 2 THEN Fulfilled(JBool(FALSE))
    ELSE LET res == answers[q] IN
         IF ~res.ok THEN Rejected(res.message)
         ELSE IF res.status # "200" THEN Rejected(<<"Code search API returned ", res.status>>)
         ELSE IF res.data > 0 THEN Fulfilled(JBool(TRUE))
         ELSE getTestPresenceLoop(answers, q + 1)

getTestPresence(answers) == getTestPresenceLoop(answers, 1)

\* Buffer.from(content, "base64").toString("utf-8"): content is the base64 text of `of`
Base64Decode(content) == JStr(content.of)

getReadme(ans) ==
    IF ~ans.ok THEN Rejected(ans.message) ELSE Fulfilled(Base64Decode(ans.data))

NumberState(data) ==
    [i \in 1..Len(data) |->
        JObject([number |-> Prop(data[i], "number"), state |-> Prop(data[i], "state")])]

\* the try { while (true) ... } catch of getDependabotAlerts with every error rethrown
RECURSIVE getDependabotAlertsLoop_rethrowAll(_, _, _)
getDependabotAlertsLoop_rethrowAll(pages, page, alerts) ==
    LET res == pages[page] IN
    IF ~res.ok THEN Rejected(res.message)
    ELSE LET all == alerts \o NumberState(res.data)
         IN  IF Len(res.data) < PerPage THEN Fulfilled(JArr(all))
             ELSE getDependabotAlertsLoop_rethrowAll(pages, page + 1, all)

\* a catch that returns what the earlier pages gave instead of an empty list
RECURSIVE getDependabotAlertsLoop_keepsCollected(_, _, _)
getDependabotAlertsLoop_keepsCollected(pages, page, alerts) ==
    LET res == pages[page] IN
    IF ~res.ok
    THEN IF res.status = "403" \/ res.status = "404" THEN Fulfilled(JArr(alerts))
         ELSE Rejected(res.message)
    ELSE LET all == alerts \o NumberState(res.data)
         IN  IF Len(res.data) < PerPage THEN Fulfilled(JArr(all))
             ELSE getDependabotAlertsLoop_keepsCollected(pages, page + 1, all)

\* the try { while (true) ... } catch of getDependabotAlerts, one answer per page requested
RECURSIVE getDependabotAlertsLoop(_, _, _)
getDependabotAlertsLoop(pages, page, alerts) ==
    LET res == pages[page] IN
    IF ~res.ok
    THEN IF res.status = "403" \/ res.status = "404" THEN Fulfilled(JArr(<< >>))
         ELSE Rejected(res.message)
    ELSE LET all == alerts \o NumberState(res.data)
         IN  IF Len(res.data) < PerPage THEN Fulfilled(JArr(all))
             ELSE getDependabotAlertsLoop(pages, page + 1, all)

getDependabotAlerts(pages) == getDependabotAlertsLoop(pages, 1, << >>)

\* const { computeDeveloperChurn } = require("../utils/metricsCalculator"): that module
\* exports computeChurn (a stub returning null) and no computeDeveloperChurn, so the
\* binding holds undefined and calling it throws a TypeError
CallUndefined(name) == Rejected(<<name, " is not a function">>)

\* getDeveloperChurn: the contributor sample, then the two windows of each login, then
\* the call of computeDeveloperChurn(oldSet, recentSet)
getDeveloperChurn(ans) ==
    IF ~ans.ok THEN Rejected(ans.message)
    ELSE IF ans.status # "200" THEN Rejected(<<"Contributors API returned ", ans.status>>)
    ELSE IF ~ans.commits.ok THEN Rejected(ans.commits.message)   \* a listCommits call threw
    ELSE CallUndefined("computeDeveloperChurn")

----------------------------------------------------------------------------
(* repoController.js: getRepoScore *)

TaskNames ==
    <<"commitData", "issues", "prs", "contributors", "testExists", "readme", "alerts",
      "churn">>

Tasks == {TaskNames[i] : i \in 1..Len(TaskNames)}

\* catch callbacks of the readme and the alert fetch writing the same key of errors
ErrKey_sharedKey(task) ==
    CASE task = "commitData" -> "commitFreq"
      [] task = "issues" -> "issueResTime"
      [] task = "prs" -> "prReviewDuration"
      [] task = "contributors" -> "contributorCount"
      [] task = "testExists" -> "testFolderExists"
      [] task = "readme" -> "vulnerabilityCount"
      [] task = "alerts" -> "vulnerabilityCount"
      [] task = "churn" -> "developerChurn"

\* the key of errors that the catch callback of each task writes
ErrKey(task) ==
    CASE task = "commitData" -> "commitFreq"
      [] task = "issues" -> "issueResTime"
      [] task = "prs" -> "prReviewDuration"
      [] task = "contributors" -> "contributorCount"
      [] task = "testExists" -> "testFolderExists"
      [] task = "readme" -> "badgeCount"
      [] task = "alerts" -> "vulnerabilityCount"
      [] task = "churn" -> "developerChurn"

ErrKeys == {ErrKey(t) : t \in Tasks}

\* the service call each task makes, applied to the collaborator's answer
Service(task, ans) ==
    CASE task = "commitData" -> getCommitActivity(ans)
      [] task = "issues" -> listRecentClosedIssues(ans)
      [] task = "prs" -> listRecentClosedPRs(ans)
      [] task = "contributors" -> listContributors(ans)
      [] task = "testExists" -> getTestPresence(ans)
      [] task = "readme" -> getReadme(ans)
      [] task = "alerts" -> getDependabotAlerts(ans)
      [] task = "churn" -> getDeveloperChurn(ans)

\* no message: the errors object has no such key
Absent == << >>

NoErrors == [k \in ErrKeys |-> Absent]

\* Object.keys(errors)
ErrorKeysOf(e) == {k \in DOMAIN e : e[k] # Absent}

\* a handler that runs the OSSF scorecard and places its result in the metric set
MetricsLiteral_withOssf ==
    [commitFreq |-> JNull, issueResTime |-> JNull, prReviewDuration |-> JNull,
     contributorCount |-> JNull, testFolderExists |-> JNull, badgeCount |-> JNull,
     developerChurn |-> JNull, busFactor |-> JNull, vulnerabilityCount |-> JNull,
     ossfScore |-> JInt(10), overallScore |-> JNull]

\* the metrics object literal at the top of getRepoScore
MetricsLiteral ==
    [commitFreq |-> JNull, issueResTime |-> JNull, prReviewDuration |-> JNull,
     contributorCount |-> JNull, testFolderExists |-> JNull, badgeCount |-> JNull,
     developerChurn |-> JNull, busFactor |-> JNull, vulnerabilityCount |-> JNull,
     overallScore |-> JNull]

Pending == [st |-> "pending"]

\* a catch callback that calls the service again: the failed promise is pending anew
Settled_retry(v) == IF v = JNull THEN [st |-> "pending"] ELSE [st |-> "settled", v |-> v]

Settled(v) == [st |-> "settled", v |-> v]
Unstarted == [st |-> "unstarted"]

AllSettled == \A t \in Tasks : calls[t].st = "settled"

\* the statements between the await and res.json: the metrics object they leave
ComputedMetrics(m, c) ==
    [m EXCEPT
        !["commitFreq"] =
            IF Truthy(c["commitData"].v) THEN computeWeeklyAverage(c["commitData"].v) ELSE @,
        !["issueResTime"] =
            IF Truthy(c["issues"].v) THEN medianResolutionTime(c["issues"].v) ELSE @,
        !["prReviewDuration"] =
            IF Truthy(c["prs"].v) THEN medianPRDuration(c["prs"].v) ELSE @,
        !["contributorCount"] =
            IF Truthy(c["contributors"].v) THEN JInt(Len(c["contributors"].v.v)) ELSE @,
        !["busFactor"] =
            IF Truthy(c["contributors"].v) THEN estimateBusFactor(c["contributors"].v) ELSE @,
        !["developerChurn"] =
            IF c["churn"].v # JNull THEN c["churn"].v ELSE @,
        !["testFolderExists"] =
            IF c["testExists"].v # JNull THEN c["testExists"].v ELSE @,
        !["badgeCount"] =
            IF Truthy(c["readme"].v) THEN countBadges(c["readme"].v) ELSE @,
        !["vulnerabilityCount"] =
            IF Truthy(c["alerts"].v) THEN countVulnerabilities(c["alerts"].v) ELSE @]

\* the errors field is set only if (Object.keys(errors).length)
NoField == [t |-> "nofield"]

ResponseBody(m, e) ==
    [metrics |-> m, errors |-> IF ErrorKeysOf(e) # {} THEN e ELSE NoField]

\* an earlier getRepoScore: any failed fetch goes to next(err) and nothing is sent
ResumeOutcome_failFast(w, m, c, e) ==
    IF ErrorKeysOf(e) # {}
    THEN [pc |-> "failed", metrics |-> m, sent |-> 0, response |-> NONE, nextCalled |-> TRUE]
    ELSE CHOOSE r \in {[pc |-> "done", metrics |-> final, sent |-> 1,
                        response |-> ResponseBody(final, e), nextCalled |-> FALSE] :
                       final \in {[computed EXCEPT
                                      !["overallScore"] = JNum(aggregateScore(w, computed))] :
                                  computed \in {ComputedMetrics(m, c)}}} : TRUE

\* getRepoScore from the await to its return: a calculator that throws rejects the
\* handler's promise and leaves the request unanswered
ResumeOutcome(w, m, c, e) ==
    CHOOSE r \in {IF \E k \in DOMAIN computed : computed[k] = THROWN
                  THEN [pc |-> "rejected", metrics |-> m, sent |-> 0, response |-> NONE,
                        nextCalled |-> FALSE]
                  ELSE CHOOSE q \in {[pc |-> "done", metrics |-> final, sent |-> 1,
                                      response |-> ResponseBody(final, e),
                                      nextCalled |-> FALSE] :
                                     final \in {[computed EXCEPT
                                                    !["overallScore"] =
                                                        JNum(aggregateScore(w, computed))]}} :
                                TRUE :
                  computed \in {ComputedMetrics(m, c)}} : TRUE

\* What the collaborator may answer to each task of one request.

Chars_badge ==
    <<"!", "[", "c", "i", "]", "(", "h", "/", "b", "a", "d", "g", "e", "/", "c", ")", " ",
      "!", "[", "l", "]", "(", "l", ".", "p", ")">>

Week(n) == JObject([week |-> JInt(1), total |-> JInt(n), days |-> JArr(<< >>)])

Item(number, created, closed) ==
    JObject([number |-> JInt(number), created_at |-> JDate(created),
             closed_at |-> IF closed < 0 THEN JNull ELSE JDate(closed)])

Login(name) == JStr(<<name>>)

Contributor(name, n) ==
    JObject([login |-> Login(name), contributions |-> JInt(n), id |-> JInt(1)])

Alert(number, state) ==
    JObject([number |-> JInt(number), state |-> JStr(state), severity |-> JStr(<<"h">>)])

FullPage == [i \in 1..PerPage |-> Alert(i, <<"o", "p", "e", "n">>)]

RateLimited == Thrown("403", <<"API rate limit exceeded">>)
NotFound == Thrown("404", <<"Not Found">>)
ServerError == Thrown("500", <<"Server Error">>)

\* the answers tried for each task, by name
Answers(task) ==
    CASE task = "commitData" -> {"weeks", "empty", "accepted202", "rateLimited"}
      [] task = "issues" -> {"items", "rateLimited"}
      [] task = "prs" -> {"items", "rateLimited"}
      [] task = "contributors" -> {"three", "empty", "notFound"}
      [] task = "testExists" -> {"found", "noneFound", "secondQueryFails"}
      [] task = "readme" -> {"badges", "empty", "notFound"}
      [] task = "alerts" -> {"alerts", "denied403", "notFound", "serverError", "fullPageThenDenied"}
      [] task = "churn" -> {"noOlderWindow", "halfLeft", "rateLimited"}

Denied == Thrown("403", <<"Resource not accessible by integration">>)

ChurnSample == <<Contributor("a", 100), Contributor("b", 50)>>

\* the answer a name stands for
Answer(task, name) ==
    CASE name = "rateLimited" -> RateLimited
      [] task = "commitData" /\ name = "weeks" -> Response("200", JArr(<<Week(10), Week(25)>>))
      [] task = "commitData" /\ name = "empty" -> Response("200", JArr(<< >>))
      [] task = "commitData" /\ name = "accepted202" ->
            Response("202", JObject([accepted |-> JBool(TRUE)]))
      [] task = "issues" /\ name = "items" ->
            Response("200", <<Item(1, 0, 1440), Item(2, 0, 4320)>>)
      [] task = "prs" /\ name = "items" ->
            Response("200", <<Item(3, 0, 90), Item(4, 60, 480), Item(5, 0, 4320)>>)
      [] task = "contributors" /\ name = "three" ->
            <<Response("200", <<Contributor("a", 100), Contributor("b", 50),
                                Contributor("c", 50)>>)>>
      [] task = "contributors" /\ name = "empty" -> <<Response("200", << >>)>>
      [] task = "contributors" /\ name = "notFound" -> <<NotFound>>
      [] task = "testExists" /\ name = "found" -> <<Response("200", 1)>>
      [] task = "testExists" /\ name = "noneFound" -> <<Response("200", 0), Response("200", 0)>>
      [] task = "testExists" /\ name = "secondQueryFails" -> <<Response("200", 0), RateLimited>>
      [] task = "readme" /\ name = "badges" -> Response("200", [of |-> Chars_badge])
      [] task = "readme" /\ name = "empty" -> Response("200", [of |-> << >>])
      [] task = "readme" /\ name = "notFound" -> NotFound
      [] task = "alerts" /\ name = "alerts" ->
            <<Response("200", <<Alert(1, <<"o", "p", "e", "n">>), Alert(2, <<"f", "i", "x">>),
                                Alert(3, <<"o", "p", "e", "n">>)>>)>>
      [] task = "alerts" /\ name = "denied403" -> <<Denied>>
      [] task = "alerts" /\ name = "notFound" -> <<NotFound>>
      [] task = "alerts" /\ name = "serverError" -> <<ServerError>>
      [] task = "alerts" /\ name = "fullPageThenDenied" -> <<Response("200", FullPage), Denied>>
      [] task = "churn" /\ name = "noOlderWindow" ->
            [ok |-> TRUE, status |-> "200", data |-> ChurnSample,
             commits |-> [ok |-> TRUE, old |-> {}, recent |-> {Login("a")}]]
      [] task = "churn" /\ name = "halfLeft" ->
            [ok |-> TRUE, status |-> "200", data |-> ChurnSample,
             commits |-> [ok |-> TRUE, old |-> {Login("a"), Login("b")},
                          recent |-> {Login("a")}]]

\* the fate of a task's promise under the named answer
Fate(task, name) == Service(task, Answer(task, name))

\* before any call: a metric set with every metric absent
NoMetrics == [k \in KeySet |-> IF k = "ossfScore" THEN JUndef ELSE JNull]

Init ==
    /\ weights = weightTable
    /\ metrics = NoMetrics
    /\ score = NONE
    /\ normCall = NONE /\ prevNormCall = NONE /\ calcCall = NONE /\ earlierCall = NONE
    /\ pc = "idle"
    /\ calls = [t \in Tasks |-> Unstarted]
    /\ api = [t \in Tasks |-> "none"]
    /\ errors = NoErrors
    /\ sent = 0
    /\ response = NONE
    /\ nextCalled = FALSE
    /\ second = NONE

\* a request arrives: getRepoScore runs up to its await, starting the eight fetches
GetRepoScoreStart ==
    /\ pc # "awaiting"
    /\ pc' = "awaiting"
    /\ metrics' = MetricsLiteral
    /\ errors' = NoErrors
    /\ calls' = [t \in Tasks |-> Pending]
    /\ api' = [t \in Tasks |-> "none"]
    /\ sent' = 0
    /\ response' = NONE
    /\ nextCalled' = FALSE
    /\ UNCHANGED <<weights, score, normCall, prevNormCall, calcCall, earlierCall, second>>

\* the collaborator answers a task: its promise settles, a rejection runs the catch
\* callback, which records the message and resolves calls[task] with null
TaskSettle(task, ans) ==
    /\ pc = "awaiting"
    /\ calls[task].st = "pending"
    /\ \E r \in {Fate(task, ans)} :
        /\ calls' = [calls EXCEPT ![task] = Settled(IF r.ok THEN r.value ELSE JNull)]
        /\ errors' = IF r.ok THEN errors ELSE [errors EXCEPT ![ErrKey(task)] = r.message]
    /\ api' = [api EXCEPT ![task] = ans]
    /\ UNCHANGED <<weights, metrics, score, normCall, prevNormCall, calcCall, earlierCall,
                   pc, sent, response, nextCalled, second>>

\* Promise.all is fulfilled: getRepoScore resumes, computes the metrics and answers
GetRepoScoreResume ==
    /\ pc = "awaiting"
    /\ AllSettled
    /\ \E out \in {ResumeOutcome(weights, metrics, calls, errors)} :
        /\ pc' = out.pc
        /\ metrics' = out.metrics
        /\ sent' = sent + out.sent
        /\ response' = out.response
        /\ nextCalled' = out.nextCalled
    /\ UNCHANGED <<weights, score, normCall, prevNormCall, calcCall, earlierCall, calls, api,
                   errors, second>>

Next ==
    \/ GetRepoScoreStart
    \/ \E task \in Tasks : \E ans \in Answers(task) : TaskSettle(task, ans)
    \/ GetRepoScoreResume

Spec == Init /\ [][Next]_vars

\* the event loop runs the continuation of the await once Promise.all is fulfilled
LiveSpec == Init /\ [][Next]_vars /\ WF_vars(GetRepoScoreResume)

----------------------------------------------------------------------------
(* Callers of the aggregator: metric sets handed to aggregateScore *)

MaxCommitSteps == 2
MaxVulnSteps == 2

\* commits per week: 0, 32.5, 65, ... (the cap of the rule is 30)
CommitVals == {JNum(Rat(65 * k, 2)) : k \in 0..MaxCommitSteps}
\* open alerts: 0, 6, 12, ... (the rule reaches 0 at 10)
VulnVals == {JInt(6 * k) : k \in 0..MaxVulnSteps}

\* the raw values a caller may hold for each metric, all inside the metric's domain
RawVals(key) ==
    CASE key = "commitFreq" -> CommitVals
      [] key = "issueResTime" -> {JInt(0), JInt(96)}
      [] key = "prReviewDuration" -> {JInt(0)}
      [] key = "contributorCount" -> {JInt(180)}
      [] key = "busFactor" -> {JInt(12)}
      [] key = "developerChurn" -> {JInt(5)}
      [] key = "testFolderExists" -> {JBool(TRUE)}
      [] key = "badgeCount" -> {JInt(5)}
      [] key = "vulnerabilityCount" -> VulnVals
      [] key = "ossfScore" -> {JInt(10)}

\* how a caller marks a metric absent: null in the object literal, or (ossfScore) no property
AbsentVals(key) == IF key = "ossfScore" THEN {JUndef} ELSE {JNull}


InitAgg == Init

\* the call a caller kept, once another call of the given kind has been made after it
After(kept, kind) == IF kept = NONE THEN NONE ELSE [kept EXCEPT ![kind] = TRUE]

\* a caller changes one entry of its metric set and calls aggregateScore(metrics)
Aggregate(key, v) ==
    /\ metrics[key] # v
    /\ metrics' = [metrics EXCEPT ![key] = v]
    /\ score' = aggregateScore(weights, metrics')
    /\ earlierCall' = After(earlierCall, "aggregated")
    /\ UNCHANGED <<weights, normCall, prevNormCall, calcCall, pc, calls, api, errors,
                   sent, response, nextCalled, second>>

NextAgg == \E key \in KeySet : \E v \in RawVals(key) \cup AbsentVals(key) : Aggregate(key, v)

SpecAgg == InitAgg /\ [][NextAgg]_vars

----------------------------------------------------------------------------
(* Callers of normalise: one metric key and one raw value of its domain *)

MaxGrid == 5

\* the raw values tried for each metric: a grid over the metric's declared domain
NormRaws(key) ==
    CASE key = "commitFreq" -> {JNum(Rat(15 * k, 2)) : k \in 0..MaxGrid}
      [] key = "issueResTime" -> {JInt(42 * k) : k \in 0..MaxGrid} \cup {JInt(24)}
      [] key = "prReviewDuration" -> {JInt(18 * k) : k \in 0..MaxGrid} \cup {JInt(6)}
      [] key = "contributorCount" -> {JInt(50 * k) : k \in 0..MaxGrid}
      [] key = "busFactor" -> {JInt(1 + 3 * k) : k \in 0..MaxGrid}
      [] key = "developerChurn" -> {JInt(IF 20 * k > 100 THEN 100 ELSE 20 * k) : k \in 0..MaxGrid}
      [] key = "testFolderExists" -> {JBool(FALSE), JBool(TRUE)}
      [] key = "badgeCount" -> {JInt(2 * k) : k \in 0..MaxGrid}
      [] key = "vulnerabilityCount" -> {JInt(3 * k) : k \in 0..MaxGrid}
      [] key = "ossfScore" -> {JNum(IF k > 4 THEN Whole(10) ELSE Rat(5 * k, 2)) : k \in 0..MaxGrid}

InitNorm == InitAgg

\* normalise(key, raw) is called; the call before it is kept for comparison
Normalise(key, raw) ==
    /\ prevNormCall' = normCall
    /\ normCall' = [key |-> key, raw |-> raw, out |-> normalise(key, raw)]
    /\ earlierCall' = After(earlierCall, "normalised")
    /\ UNCHANGED <<weights, metrics, score, calcCall, pc, calls, api, errors, sent,
                   response, nextCalled, second>>

NextNorm == \E key \in KeySet : \E raw \in NormRaws(key) : Normalise(key, raw)

SpecNorm == InitNorm /\ [][NextNorm]_vars

----------------------------------------------------------------------------
(* Callers that call aggregateScore again with a metric set used before, and *)
(* callers whose metric object has keys the weight table does not know       *)

RepeatVals(key) ==
    CASE key = "commitFreq" -> {JInt(15)}
      [] key = "testFolderExists" -> {JBool(TRUE)}
      [] key = "vulnerabilityCount" -> {JInt(3)}
      [] OTHER -> {}

\* keys of the response object and of getRepoScore's metrics that carry no weight
UnknownVals(key) ==
    CASE key = "overallScore" -> {JNull, JInt(50)}
      [] key = "owner" -> {JStr(<<"o">>)}
      [] OTHER -> {}

UnknownKeys == {"overallScore", "owner"}

\* obj with obj[key] = v
WithKey(obj, key, v) == [k \in DOMAIN obj \cup {key} |-> IF k = key THEN v ELSE obj[k]]

\* obj after `delete obj[key]`
WithoutKey(obj, key) == [k \in DOMAIN obj \ {key} |-> obj[k]]

InitRepeat == Init

\* as Aggregate, and the caller keeps the metric set and the score it got
AggregateKept(key, v) ==
    /\ metrics[key] # v
    /\ metrics' = [metrics EXCEPT ![key] = v]
    /\ score' = aggregateScore(weights, metrics')
    /\ earlierCall' = [metrics |-> metrics', score |-> score',
                       aggregated |-> FALSE, normalised |-> FALSE]
    /\ UNCHANGED <<weights, normCall, prevNormCall, calcCall, pc, calls, api, errors,
                   sent, response, nextCalled, second>>

\* a caller sets an entry under a key without a weight and calls aggregateScore(metrics)
AggregateUnknown(key, v) ==
    /\ Get(metrics, key) # v
    /\ metrics' = WithKey(metrics, key, v)
    /\ score' = aggregateScore(weights, metrics')
    /\ earlierCall' = After(earlierCall, "aggregated")
    /\ UNCHANGED <<weights, normCall, prevNormCall, calcCall, pc, calls, api, errors,
                   sent, response, nextCalled, second>>

\* a caller deletes such an entry and calls aggregateScore(metrics)
AggregateDeleted(key) ==
    /\ key \in DOMAIN metrics
    /\ metrics' = WithoutKey(metrics, key)
    /\ score' = aggregateScore(weights, metrics')
    /\ earlierCall' = After(earlierCall, "aggregated")
    /\ UNCHANGED <<weights, normCall, prevNormCall, calcCall, pc, calls, api, errors,
                   sent, response, nextCalled, second>>

NextRepeat ==
    \/ \E key \in KeySet : \E v \in RepeatVals(key) \cup AbsentVals(key) : Aggregate(key, v)
    \/ \E key \in KeySet : \E v \in RepeatVals(key) \cup AbsentVals(key) : AggregateKept(key, v)
    \/ \E key \in UnknownKeys : \E v \in UnknownVals(key) : AggregateUnknown(key, v)
    \/ \E key \in UnknownKeys : AggregateDeleted(key)
    \/ Normalise("issueResTime", JInt(96))

SpecRepeat == InitRepeat /\ [][NextRepeat]_vars

----------------------------------------------------------------------------
(* Callers of the metric calculator: one function and one argument *)

CalculatorNames ==
    {"computeWeeklyAverage", "medianResolutionTime", "medianPRDuration",
     "estimateBusFactor", "existsTestFolder", "countBadges", "countVulnerabilities"}

\* estimateBusFactor sorting the array it was handed: contributors.sort(...)
SortReceiver_argument(fn) ==
    CASE fn = "estimateBusFactor" -> "argument"
      [] fn \in {"medianResolutionTime", "medianPRDuration"} -> "fresh"
      [] OTHER -> "none"

\* the array each function calls sort on (sort works in place): the copy
\* [...contributors] in estimateBusFactor, the fresh array filter and map built in the
\* two medians, none elsewhere
SortReceiver(fn) ==
    CASE fn = "estimateBusFactor" -> "copy"
      [] fn \in {"medianResolutionTime", "medianPRDuration"} -> "fresh"
      [] OTHER -> "none"

\* what the array handed to fn holds once fn(arg) has returned or thrown
ArgumentAfter(fn, arg) ==
    IF /\ SortReceiver(fn) = "argument" /\ fn = "estimateBusFactor"
       /\ arg.t = "array" /\ ~AnyNullish(arg.v)
    THEN JArr(SortDesc(arg.v))
    ELSE arg

\* an aggregateScore that stores each normalised value back: metrics[key] = normalise(...)
MetricsAfter_storesNormalised(w, m) ==
    [k \in DOMAIN m |->
        IF k \in KeySet /\ ~IsNullish(m[k]) THEN JNum(normalise(k, m[k])) ELSE m[k]]

\* what the metrics object handed to aggregateScore holds once it has returned: the
\* forEach reads metrics[key] and writes total only
MetricsAfter(w, m) == m

Calculator(fn, arg) ==
    CASE fn = "computeWeeklyAverage" -> computeWeeklyAverage(arg)
      [] fn = "medianResolutionTime" -> medianResolutionTime(arg)
      [] fn = "medianPRDuration" -> medianPRDuration(arg)
      [] fn = "estimateBusFactor" -> estimateBusFactor(arg)
      [] fn = "existsTestFolder" -> existsTestFolder(arg)
      [] fn = "countBadges" -> countBadges(arg)
      [] fn = "countVulnerabilities" -> countVulnerabilities(arg)

MaxItems == 3

Entry(name, type) == JObject([name |-> JStr(name), type |-> JStr(type)])

MergedPR ==
    JObject([created_at |-> JDate(0), merged_at |-> JDate(60), closed_at |-> JDate(120)])

\* a pull request neither merged nor closed
OpenPR == JObject([created_at |-> JDate(0), merged_at |-> JNull, closed_at |-> JNull])

\* the elements of the arrays a caller hands to each function; null is a malformed one
Elements(fn) ==
    {JNull} \cup
    CASE fn = "computeWeeklyAverage" -> {Week(10), Week(25), JObject([week |-> JInt(1)])}
      [] fn = "medianResolutionTime" ->
            {Item(1, 0, 1440), Item(2, 0, 4320), Item(3, 0, -1), Item(4, 30, 120)}
      [] fn = "medianPRDuration" ->
            {Item(1, 0, 1440), Item(3, 0, -1), Item(4, 30, 120), MergedPR, OpenPR}
      [] fn = "estimateBusFactor" ->
            {Contributor("a", 100), Contributor("b", 50), Contributor("c", 50)}
      [] fn = "existsTestFolder" ->
            {Entry(<<"T", "e", "s", "t", "s">>, <<"d", "i", "r">>),
             Entry(<<"s", "r", "c">>, <<"d", "i", "r">>),
             Entry(<<"t", "e", "s", "t">>, <<"f", "i", "l", "e">>),
             Entry(<<"t", "e", "s", "t", "i", "n", "g">>, <<"d", "i", "r">>),
             Entry(<<"_", "_", "t", "e", "s", "t", "s", "_", "_">>, <<"d", "i", "r">>)}
      [] fn = "countBadges" -> {JStr(<<"a">>)}
      [] fn = "countVulnerabilities" ->
            {Alert(1, <<"o", "p", "e", "n">>), Alert(2, <<"f", "i", "x">>),
             Alert(3, <<"O", "p", "e", "n">>)}

\* image links whose url holds "badge", in lower and in mixed case
BadgeImages ==
    {<<"!", "[", "c", "]", "(", "b", "a", "d", "g", "e", ")">>,
     <<"!", "[", "c", "]", "(", "x", "B", "a", "D", "G", "E", ")">>}

\* what a README is made of: badge images, an image with "badge" in its alt text only,
\* a link that is no image, and text
ReadmePieces ==
    BadgeImages \cup
    {<<"!", "[", "b", "a", "d", "g", "e", "]", "(", "l", ")">>,
     <<"[", "b", "]", "(", "b", "a", "d", "g", "e", ")">>,
     <<" ">>}

PieceLists == UNION {[1..n -> ReadmePieces] : n \in 0..MaxItems}

RECURSIVE Concat(_)
Concat(pieces) ==
    IF pieces = << >> THEN << >> ELSE Head(pieces) \o Concat(Tail(pieces))

\* the README texts a caller hands to countBadges
Readmes == {JStr(Concat(pieces)) : pieces \in PieceLists}

ArraysOf(S) == {JArr(s) : s \in UNION {[1..n -> S] : n \in 0..MaxItems}}

\* the arguments that are no array
NonArrays ==
    {JNull, JUndef, JInt(5), JBool(FALSE), JStr(<< >>), JStr(<<"a", "b">>), JStr(Chars_badge),
     JObject([total |-> JInt(1)])}

CalcArgs(fn) ==
    NonArrays \cup ArraysOf(Elements(fn)) \cup (IF fn = "countBadges" THEN Readmes ELSE {})

\* a caller is about to call fn(arg): the call is drawn here, its result is not yet known
InitCalc ==
    /\ calcCall \in UNION {{[fn |-> fn, arg |-> arg, out |-> NONE] : arg \in CalcArgs(fn)} :
                            fn \in CalculatorNames}
    /\ weights = weightTable
    /\ metrics = NoMetrics
    /\ score = NONE
    /\ normCall = NONE /\ prevNormCall = NONE /\ earlierCall = NONE
    /\ pc = "idle"
    /\ calls = [t \in Tasks |-> Unstarted]
    /\ api = [t \in Tasks |-> "none"]
    /\ errors = NoErrors
    /\ sent = 0
    /\ response = NONE
    /\ nextCalled = FALSE
    /\ second = NONE

\* the call fn(arg) has returned or thrown
Called(fn) == calcCall # NONE /\ calcCall.fn = fn /\ calcCall.out # NONE

\* fn(arg) is called
CallCalculator(fn, arg) ==
    /\ calcCall = [fn |-> fn, arg |-> arg, out |-> NONE]
    /\ calcCall' = [fn |-> fn, arg |-> arg, out |-> Calculator(fn, arg),
                    left |-> ArgumentAfter(fn, arg)]
    /\ UNCHANGED <<weights, metrics, score, normCall, prevNormCall, earlierCall, pc, calls,
                   api, errors, sent, response, nextCalled, second>>

NextCalc == \E fn \in CalculatorNames : \E arg \in CalcArgs(fn) : CallCalculator(fn, arg)

SpecCalc == InitCalc /\ [][NextCalc]_vars

----------------------------------------------------------------------------
(* Processes started with a weight table other than the shipped one: the       *)
(* literal of scoreAggregator.js edited, or the exported object changed by an  *)
(* importer before the first request                                           *)

\* the shipped table, one without a weight for ossfScore, one without a weight for
\* busFactor, and one whose weights sum to 110
WeightTables ==
    {weightTable, WithoutKey(weightTable, "ossfScore"), WithoutKey(weightTable, "busFactor"),
     [weightTable EXCEPT !["vulnerabilityCount"] = 23]}

\* the raw values the callers of such a process hand over
ProbeVals(key) ==
    RepeatVals(key) \cup (IF key \in {"busFactor", "ossfScore"} THEN RawVals(key) ELSE {})

\* the module has been loaded: const weights = {...} and module.exports run, and
\* nothing else does
InitWeights ==
    /\ weights \in WeightTables
    /\ metrics = NoMetrics
    /\ score = NONE
    /\ normCall = NONE /\ prevNormCall = NONE /\ calcCall = NONE /\ earlierCall = NONE
    /\ pc = "idle"
    /\ calls = [t \in Tasks |-> Unstarted]
    /\ api = [t \in Tasks |-> "none"]
    /\ errors = NoErrors
    /\ sent = 0
    /\ response = NONE
    /\ nextCalled = FALSE
    /\ second = NONE

NextWeights ==
    \E key \in KeySet : \E v \in ProbeVals(key) \cup AbsentVals(key) : Aggregate(key, v)

SpecWeights == InitWeights /\ [][NextWeights]_vars

----------------------------------------------------------------------------
(* Callers that look at what they handed over after the call: the four         *)
(* calculators that walk a sequence, and aggregateScore                        *)

WalkerNames ==
    {"computeWeeklyAverage", "medianResolutionTime", "medianPRDuration", "estimateBusFactor"}

\* the metric sets handed to aggregateScore
Snapshots ==
    [commitFreq : RawVals("commitFreq") \cup AbsentVals("commitFreq"),
     issueResTime : RawVals("issueResTime") \cup AbsentVals("issueResTime"),
     prReviewDuration : RawVals("prReviewDuration") \cup AbsentVals("prReviewDuration"),
     contributorCount : RawVals("contributorCount") \cup AbsentVals("contributorCount"),
     busFactor : RawVals("busFactor") \cup AbsentVals("busFactor"),
     developerChurn : RawVals("developerChurn") \cup AbsentVals("developerChurn"),
     testFolderExists : RawVals("testFolderExists") \cup AbsentVals("testFolderExists"),
     badgeCount : RawVals("badgeCount") \cup AbsentVals("badgeCount"),
     vulnerabilityCount : RawVals("vulnerabilityCount") \cup AbsentVals("vulnerabilityCount"),
     ossfScore : RawVals("ossfScore") \cup AbsentVals("ossfScore")]

InitFrame ==
    /\ calcCall \in
          UNION {{[fn |-> fn, arg |-> arg, out |-> NONE] : arg \in CalcArgs(fn)} :
                 fn \in WalkerNames}
          \cup {[fn |-> "aggregateScore", arg |-> m, out |-> NONE] : m \in Snapshots}
    /\ weights = weightTable
    /\ metrics = NoMetrics
    /\ score = NONE
    /\ normCall = NONE /\ prevNormCall = NONE /\ earlierCall = NONE
    /\ pc = "idle"
    /\ calls = [t \in Tasks |-> Unstarted]
    /\ api = [t \in Tasks |-> "none"]
    /\ errors = NoErrors
    /\ sent = 0
    /\ response = NONE
    /\ nextCalled = FALSE
    /\ second = NONE

\* aggregateScore(m) is called
CallAggregateScore(m) ==
    /\ calcCall = [fn |-> "aggregateScore", arg |-> m, out |-> NONE]
    /\ calcCall' = [fn |-> "aggregateScore", arg |-> m, out |-> aggregateScore(weights, m),
                    left |-> MetricsAfter(weights, m)]
    /\ UNCHANGED <<weights, metrics, score, normCall, prevNormCall, earlierCall, pc, calls,
                   api, errors, sent, response, nextCalled, second>>

NextFrame ==
    \/ \E fn \in WalkerNames : \E arg \in CalcArgs(fn) : CallCalculator(fn, arg)
    \/ \E m \in Snapshots : CallAggregateScore(m)

SpecFrame == InitFrame /\ [][NextFrame]_vars

----------------------------------------------------------------------------
(* Callers of getDependabotAlerts: what the collaborator answers page by page *)

MaxPages == 3

\* a page of n alerts numbered from first, alternately open and fixed
PageFrom(first, n) ==
    Response("200", [i \in 1..n |->
                        Alert(first + i - 1,
                              IF i % 2 = 1 THEN <<"o", "p", "e", "n">> ELSE <<"f", "i", "x">>)])

\* full pages, short pages (2 and 99 alerts), an empty page and the errors octokit throws
PageAnswers ==
    {PageFrom(1, PerPage), PageFrom(1001, PerPage), PageFrom(3001, PerPage),
     PageFrom(2001, 2), PageFrom(2001, PerPage - 1), PageFrom(1, 0),
     Denied, NotFound, ServerError}

\* the loop asks for the next page only after a full one
EndsLoop(ans) == ~ans.ok \/ Len(ans.data) < PerPage

\* the answers to the pages getDependabotAlerts can ask for: the last one ends the loop
PageRuns ==
    {pages \in UNION {[1..n -> PageAnswers] : n \in 1..MaxPages} :
        /\ EndsLoop(pages[Len(pages)])
        /\ \A i \in 1..(Len(pages) - 1) : ~EndsLoop(pages[i])}

\* a caller is about to call getDependabotAlerts against a repository answering pages
InitAlerts ==
    /\ calcCall \in {[fn |-> "getDependabotAlerts", arg |-> pages, out |-> NONE] :
                       pages \in PageRuns}
    /\ weights = weightTable
    /\ metrics = NoMetrics
    /\ score = NONE
    /\ normCall = NONE /\ prevNormCall = NONE /\ earlierCall = NONE
    /\ pc = "idle"
    /\ calls = [t \in Tasks |-> Unstarted]
    /\ api = [t \in Tasks |-> "none"]
    /\ errors = NoErrors
    /\ sent = 0
    /\ response = NONE
    /\ nextCalled = FALSE
    /\ second = NONE

\* getDependabotAlerts(owner, repo) runs to its end: its promise is fulfilled or rejected
CallGetDependabotAlerts(pages) ==
    /\ calcCall = [fn |-> "getDependabotAlerts", arg |-> pages, out |-> NONE]
    /\ calcCall' = [calcCall EXCEPT !.out = getDependabotAlerts(pages)]
    /\ UNCHANGED <<weights, metrics, score, normCall, prevNormCall, earlierCall, pc, calls,
                   api, errors, sent, response, nextCalled, second>>

NextAlerts == \E pages \in PageRuns : CallGetDependabotAlerts(pages)

SpecAlerts == InitAlerts /\ [][NextAlerts]_vars

----------------------------------------------------------------------------
(* Two requests handled at the same time: each getRepoScore call has its own   *)
(* metrics, errors and calls (they are locals of the call); the event loop runs *)
(* the callbacks of both calls in any order.                                   *)

\* what the collaborator answers the eight tasks of a request for a healthy repository
Healthy ==
    [t \in Tasks |->
        CASE t = "commitData" -> "weeks" [] t = "issues" -> "items" [] t = "prs" -> "items"
          [] t = "contributors" -> "three" [] t = "testExists" -> "found"
          [] t = "readme" -> "badges" [] t = "alerts" -> "alerts" [] t = "churn" -> "halfLeft"]

\* and for a repository most calls fail for, each with its own message
Failing ==
    [t \in Tasks |->
        CASE t = "commitData" -> "rateLimited" [] t = "issues" -> "items"
          [] t = "prs" -> "rateLimited" [] t = "contributors" -> "notFound"
          [] t = "testExists" -> "secondQueryFails" [] t = "readme" -> "notFound"
          [] t = "alerts" -> "serverError" [] t = "churn" -> "rateLimited"]

Repositories == {Healthy, Failing}

\* one errors object at module level, shared by every call: a key the other call wrote
\* is seen by this one
OwnErrors_moduleLevel(mine, theirs) ==
    [k \in DOMAIN mine |-> IF mine[k] # Absent THEN mine[k] ELSE theirs[k]]

\* the errors object the catch callbacks and the response of a call use: the const
\* errors = {} of that call, whatever another call has recorded
OwnErrors(mine, theirs) == mine

\* the first request arrives for a repository that will answer as `answers` says
FirstArrives(answers) ==
    /\ pc = "idle"
    /\ pc' = "awaiting"
    /\ metrics' = MetricsLiteral
    /\ errors' = NoErrors
    /\ calls' = [t \in Tasks |-> Pending]
    /\ api' = answers
    /\ sent' = 0
    /\ response' = NONE
    /\ nextCalled' = FALSE
    /\ UNCHANGED <<weights, score, normCall, prevNormCall, calcCall, earlierCall, second>>

\* the second request arrives: another call of getRepoScore runs up to its await
SecondArrives(answers) ==
    /\ second = NONE
    /\ second' = [pc |-> "awaiting", metrics |-> MetricsLiteral, errors |-> NoErrors,
                  calls |-> [t \in Tasks |-> Pending], api |-> answers, response |-> NONE]
    /\ UNCHANGED <<weights, metrics, score, normCall, prevNormCall, calcCall, earlierCall,
                   pc, calls, api, errors, sent, response, nextCalled>>

\* a fetch of the second request settles; a rejection runs that call's catch callback
SecondSettle(task) ==
    /\ second # NONE
    /\ second.pc = "awaiting"
    /\ second.calls[task].st = "pending"
    /\ \E r \in {Fate(task, second.api[task])} :
        second' = [second EXCEPT
                      !.calls[task] = Settled(IF r.ok THEN r.value ELSE JNull),
                      !.errors = IF r.ok THEN @ ELSE [@ EXCEPT ![ErrKey(task)] = r.message]]
    /\ UNCHANGED <<weights, metrics, score, normCall, prevNormCall, calcCall, earlierCall,
                   pc, calls, api, errors, sent, response, nextCalled>>

\* Promise.all of the second request is fulfilled: its handler resumes and answers
SecondResume ==
    /\ second # NONE
    /\ second.pc = "awaiting"
    /\ \A t \in Tasks : second.calls[t].st = "settled"
    /\ \E out \in {ResumeOutcome(weights, second.metrics, second.calls,
                                   OwnErrors(second.errors, errors))} :
        second' = [second EXCEPT !.pc = out.pc, !.metrics = out.metrics,
                                 !.response = out.response]
    /\ UNCHANGED <<weights, metrics, score, normCall, prevNormCall, calcCall, earlierCall,
                   pc, calls, api, errors, sent, response, nextCalled>>

InitTwo == Init

NextTwo ==
    \/ \E answers \in Repositories : FirstArrives(answers)
    \/ \E task \in Tasks : TaskSettle(task, api[task])
    \/ GetRepoScoreResume
    \/ \E answers \in Repositories : SecondArrives(answers)
    \/ \E task \in Tasks : SecondSettle(task)
    \/ SecondResume

SpecTwo == InitTwo /\ [][NextTwo]_vars

----------------------------------------------------------------------------
(* Claims about the metric calculator *)

\* the argument has the wrong shape: no string for countBadges, no array for the others
WrongShape(fn, arg) == IF fn = "countBadges" THEN arg.t # "string" ELSE arg.t # "array"

\* the default each function documents for a malformed input
DocumentedDefault(fn) == IF fn = "existsTestFolder" THEN JBool(FALSE) ELSE JInt(0)

\* C8: every metric calculator function is total: given null, undefined or a
\* non-array where an array is expected it returns its documented default (0 or
\* false) and never throws.
C8_CalculatorsTotal ==
    (calcCall # NONE /\ calcCall.out # NONE /\ WrongShape(calcCall.fn, calcCall.arg)) =>
        /\ calcCall.out # THROWN
        /\ calcCall.out = DocumentedDefault(calcCall.fn)

\* the argument is an array of objects that all have the property
ArrayWith(arg, prop) ==
    /\ arg.t = "array"
    /\ \A i \in 1..Len(arg.v) : arg.v[i].t = "object" /\ prop \in DOMAIN arg.v[i].f

\* the sum of the (integer) contribution counts at the positions S
RECURSIVE ContributionSum(_, _)
ContributionSum(seq, S) ==
    IF S = {} THEN 0
    ELSE LET i == CHOOSE x \in S : TRUE
         IN  seq[i].f.contributions.v.n + ContributionSum(seq, S \ {i})

\* some k contributors account for at least half of all contributions
HalfWithin(seq, k) ==
    \E S \in SUBSET (1..Len(seq)) :
        /\ Cardinality(S) = k
        /\ 2 * ContributionSum(seq, S) >= ContributionSum(seq, 1..Len(seq))

\* C13: estimateBusFactor returns the smallest k such that the k largest contribution
\* counts sum to at least half of the total, the threshold included ([100,50,50]
\* gives 1, in whatever order they come), and 0 for an empty list.
C13_BusFactorSmallestHalf ==
    (Called("estimateBusFactor") /\ ArrayWith(calcCall.arg, "contributions")) =>
        /\ calcCall.out.t = "number" /\ IsInteger(calcCall.out.v)
        /\ HalfWithin(calcCall.arg.v, calcCall.out.v.n)
        /\ \A k \in 0..(calcCall.out.v.n - 1) : ~HalfWithin(calcCall.arg.v, k)
        /\ Len(calcCall.arg.v) = 0 => calcCall.out = JInt(0)

C13_Witness ==
    /\ Called("estimateBusFactor")
    /\ calcCall.arg =
          JArr(<<Contributor("b", 50), Contributor("a", 100), Contributor("c", 50)>>)
    /\ calcCall.out = JInt(1)

\* the number of durations below x, and of those not above it; ds maps positions to hours
Below(ds, x) == Cardinality({i \in DOMAIN ds : RLt(ds[i], x)})
NotAbove(ds, x) == Cardinality({i \in DOMAIN ds : RLe(ds[i], x)})

\* the r-th smallest of the durations
Smallest(ds, r) ==
    CHOOSE x \in {ds[i] : i \in DOMAIN ds} : Below(ds, x) < r /\ r <= NotAbove(ds, x)

\* the standard median: the middle one of an odd number of durations, the mean of the
\* two middle ones of an even number, 0 of none
StandardMedian(ds) ==
    LET n == Cardinality(DOMAIN ds) IN
    IF n = 0 THEN Whole(0)
    ELSE IF n % 2 = 1 THEN Smallest(ds, (n + 1) \div 2)
    ELSE RDiv(RAdd(Smallest(ds, n \div 2), Smallest(ds, (n \div 2) + 1)), Whole(2))

\* hours from one timestamp to another
HoursFromTo(from, to) == Rat(to.min - from.min, 60)

\* the issues with a close time, each with its hours from created_at to closed_at
ClosedIssueHours(seq) ==
    [i \in {j \in 1..Len(seq) : seq[j].f.closed_at # JNull} |->
        HoursFromTo(seq[i].f.created_at, seq[i].f.closed_at)]

\* C15: medianResolutionTime returns the standard median of the hours from created_at
\* to closed_at over exactly the issues that have a close time (24h and 72h give 48),
\* and 0 when none has; issues without a close time do not affect the result.
C15_MedianOverClosedIssues ==
    (Called("medianResolutionTime") /\ ArrayWith(calcCall.arg, "closed_at")) =>
        calcCall.out = JNum(StandardMedian(ClosedIssueHours(calcCall.arg.v)))

\* 72h, an open issue and 24h, in this order, give 48
C15_Witness ==
    /\ Called("medianResolutionTime")
    /\ calcCall.arg = JArr(<<Item(2, 0, 4320), Item(3, 0, -1), Item(1, 0, 1440)>>)
    /\ calcCall.out = JInt(48)

\* the end of a pull request: merged_at when it has one, closed_at otherwise
EndOf(pr) ==
    IF "merged_at" \in DOMAIN pr.f /\ pr.f.merged_at # JNull THEN pr.f.merged_at
    ELSE pr.f.closed_at

\* the pull requests with an end, each with its hours from created_at to the end
EndedPRHours(seq) ==
    [i \in {j \in 1..Len(seq) : EndOf(seq[j]) # JNull} |->
        HoursFromTo(seq[i].f.created_at, EndOf(seq[i]))]

\* C16: medianPRDuration returns the standard median of the hours from created_at to
\* the end over exactly the PRs that have an end, the end being merged_at when present
\* and closed_at otherwise; PRs with neither are left out, and the result is 0 when
\* no PR has an end.
C16_MedianOverEndedPRs ==
    (Called("medianPRDuration") /\ ArrayWith(calcCall.arg, "closed_at")) =>
        calcCall.out = JNum(StandardMedian(EndedPRHours(calcCall.arg.v)))

\* a PR merged after 1h (closed after 2h), an open PR and one closed after 24h: 12.5
C16_Witness ==
    /\ Called("medianPRDuration")
    /\ calcCall.arg = JArr(<<MergedPR, OpenPR, Item(1, 0, 1440)>>)
    /\ calcCall.out = JNum(Rat(25, 2))

\* the argument is an array of objects
ArrayOfObjects(arg) ==
    arg.t = "array" /\ \A i \in 1..Len(arg.v) : arg.v[i].t = "object"

\* the weekly total of an entry, a missing one counted as 0
TotalOf(entry) == IF "total" \in DOMAIN entry.f THEN entry.f.total.v.n ELSE 0

RECURSIVE TotalsSum(_, _)
TotalsSum(seq, S) ==
    IF S = {} THEN 0
    ELSE LET i == CHOOSE x \in S : TRUE IN TotalOf(seq[i]) + TotalsSum(seq, S \ {i})

\* C17: computeWeeklyAverage returns the sum of the weekly totals (a missing total
\* counted as 0) divided by the number of entries, those without a total included;
\* it returns 0 for an empty sequence and for every input that is no sequence.
C17_MeanOfWeeklyTotals ==
    Called("computeWeeklyAverage") =>
        /\ calcCall.arg.t # "array" => calcCall.out = JInt(0)
        /\ ArrayOfObjects(calcCall.arg) =>
              calcCall.out =
                  IF Len(calcCall.arg.v) = 0 THEN JInt(0)
                  ELSE JNum(Rat(TotalsSum(calcCall.arg.v, 1..Len(calcCall.arg.v)),
                                Len(calcCall.arg.v)))

\* totals 10, none and 25 average 35/3
C17_Witness ==
    /\ Called("computeWeeklyAverage")
    /\ calcCall.arg = JArr(<<Week(10), JObject([week |-> JInt(1)]), Week(25)>>)
    /\ calcCall.out = JNum(Rat(35, 3))

\* the entry is a directory whose whole name is "test" or "tests" in some letter case
IsTestDirectory(entry) ==
    /\ entry.f.type = JStr(<<"d", "i", "r">>)
    /\ Lower(entry.f.name.v) \in {<<"t", "e", "s", "t">>, <<"t", "e", "s", "t", "s">>}

\* entries that must never count: a file named test, directories testing and __tests__
NeverTestDirectories ==
    {Entry(<<"t", "e", "s", "t">>, <<"f", "i", "l", "e">>),
     Entry(<<"t", "e", "s", "t", "i", "n", "g">>, <<"d", "i", "r">>),
     Entry(<<"_", "_", "t", "e", "s", "t", "s", "_", "_">>, <<"d", "i", "r">>)}

\* C18: existsTestFolder is true if and only if some entry has type "dir" and a name
\* that is, letter case aside, exactly "test" or "tests"; a file named test and
\* directories whose name only contains test (testing, __tests__) never make it true.
C18_TestFolderWholeName ==
    (Called("existsTestFolder") /\ ArrayWith(calcCall.arg, "name")) =>
        /\ calcCall.out.t = "boolean"
        /\ calcCall.out.v = (\E i \in 1..Len(calcCall.arg.v) : IsTestDirectory(calcCall.arg.v[i]))
        /\ (\A i \in 1..Len(calcCall.arg.v) : calcCall.arg.v[i] \in NeverTestDirectories) =>
              calcCall.out = JBool(FALSE)

\* a directory testing, a file test and, last, a directory Tests
C18_Witness ==
    /\ Called("existsTestFolder")
    /\ calcCall.arg =
          JArr(<<Entry(<<"t", "e", "s", "t", "i", "n", "g">>, <<"d", "i", "r">>),
                 Entry(<<"t", "e", "s", "t">>, <<"f", "i", "l", "e">>),
                 Entry(<<"T", "e", "s", "t", "s">>, <<"d", "i", "r">>)>>)
    /\ calcCall.out = JBool(TRUE)

\* C19: countBadges returns the number of image links ![alt](url) whose url contains
\* "badge" in any letter case; an image link with "badge" in its alt text only and a
\* link that is no image are not counted; any input that is no string gives 0.
C19_BadgeImagesCounted ==
    Called("countBadges") =>
        /\ calcCall.arg.t # "string" => calcCall.out = JInt(0)
        /\ calcCall.arg = JStr(Chars_badge) => calcCall.out = JInt(1)
        /\ \A pieces \in PieceLists :
              calcCall.arg = JStr(Concat(pieces)) =>
                  calcCall.out =
                      JInt(Cardinality({i \in 1..Len(pieces) : pieces[i] \in BadgeImages}))

\* a mixed-case badge, an image with "badge" in its alt text only, a lower-case badge
C19_Witness ==
    /\ Called("countBadges")
    /\ calcCall.arg =
          JStr(<<"!", "[", "c", "]", "(", "x", "B", "a", "D", "G", "E", ")">>
               \o <<"!", "[", "b", "a", "d", "g", "e", "]", "(", "l", ")">>
               \o <<"!", "[", "c", "]", "(", "b", "a", "d", "g", "e", ")">>)
    /\ calcCall.out = JInt(2)

\* the number of alerts in seq whose state is the string "open", letter for letter
RECURSIVE OpenAlerts(_)
OpenAlerts(seq) ==
    IF seq = << >> THEN 0
    ELSE (IF Head(seq).f.state = JStr(<<"o", "p", "e", "n">>) THEN 1 ELSE 0)
         + OpenAlerts(Tail(seq))

\* C20: countVulnerabilities returns the number of alerts whose state is exactly
\* "open"; alerts in another state, "Open" included, are not counted; an input that
\* is no array gives 0.
C20_ExactlyOpenCounted ==
    Called("countVulnerabilities") =>
        /\ calcCall.arg.t # "array" => calcCall.out = JInt(0)
        /\ ArrayWith(calcCall.arg, "state") =>
              /\ calcCall.out = JInt(OpenAlerts(calcCall.arg.v))
              /\ (\A i \in 1..Len(calcCall.arg.v) :
                     calcCall.arg.v[i].f.state.v \in {<<"O", "p", "e", "n">>, <<"f", "i", "x">>})
                    => calcCall.out = JInt(0)

\* an open alert, an alert in state "Open" and a fixed one
C20_Witness ==
    /\ Called("countVulnerabilities")
    /\ calcCall.arg = JArr(<<Alert(1, <<"o", "p", "e", "n">>), Alert(3, <<"O", "p", "e", "n">>),
                             Alert(2, <<"f", "i", "x">>)>>)
    /\ calcCall.out = JInt(1)

----------------------------------------------------------------------------
(* Claims about the score aggregator *)

\* C1: for every metric set whose present values lie in their declared domains,
\* aggregateScore returns an integer in [0,100].
C1_ScoreInRange ==
    score # NONE => IsInteger(score) /\ 0 <= score.n /\ score.n <= 100

\* C2: for every metric key and every raw value of its input domain, normalise
\* returns a value in [0,10] and never NaN.
C2_NormaliseInRange ==
    normCall # NONE =>
        /\ ~IsNaN(normCall.out)
        /\ RLe(Whole(0), normCall.out)
        /\ RLe(normCall.out, Whole(10))

PresentKeys(m) == {k \in KeySet : ~IsNullish(Get(m, k))}

RECURSIVE SumContributions(_, _)
SumContributions(m, S) ==
    IF S = {} THEN Whole(0)
    ELSE LET k == CHOOSE x \in S : TRUE
         IN  RAdd(RDiv(RMul(normalise(k, m[k]), Whole(weightTable[k])), Whole(10)),
                  SumContributions(m, S \ {k}))

\* z is the integer nearest to r (a tie goes up, as Math.round does)
IsNearestInteger(z, r) ==
    /\ IsInteger(z)
    /\ RLe(RSub(z, Rat(1, 2)), r)
    /\ RLt(r, RAdd(z, Rat(1, 2)))

OnlyTestAndVuln ==
    /\ PresentKeys(metrics) = {"testFolderExists", "vulnerabilityCount"}
    /\ metrics["testFolderExists"] = JBool(TRUE)
    /\ metrics["vulnerabilityCount"] = JInt(0)

\* C3: aggregateScore(metrics) is the nearest integer to the sum, over exactly the
\* keys whose value is neither null nor undefined, of normalise(key, value) *
\* weight[key] / 10; absent metrics add nothing and their weight is not
\* redistributed (only testFolderExists = true and vulnerabilityCount = 0 gives 23).
C3_WeightedSumOfPresent ==
    score # NONE =>
        /\ IsNearestInteger(score, SumContributions(metrics, PresentKeys(metrics)))
        /\ OnlyTestAndVuln => score = Whole(23)

C3_Witness == score # NONE /\ OnlyTestAndVuln /\ score = Whole(23)

SameKnownEntries == \A k \in KeySet : Get(metrics', k) = Get(metrics, k)

\* C12: aggregateScore ignores keys the weight table does not have: adding, removing
\* or changing an entry under such a key (overallScore, owner) leaves the score as it
\* was, and a metric set with all ten keys absent scores 0.
C12_UnknownKeysIgnored ==
    /\ []((score # NONE /\ PresentKeys(metrics) = {}) => score = Whole(0))
    /\ [][(score # NONE /\ score' # NONE /\ SameKnownEntries) => score' = score]_vars

\* a positive score computed from a metric object that holds both unknown keys
C12_Witness ==
    /\ score # NONE /\ RLt(Whole(0), score)
    /\ UnknownKeys \subseteq DOMAIN metrics
    /\ metrics["owner"] = JStr(<<"o">>) /\ metrics["overallScore"] = JInt(50)

Rising == {"commitFreq", "contributorCount", "busFactor", "badgeCount", "ossfScore"}
Falling == {"issueResTime", "prReviewDuration", "developerChurn", "vulnerabilityCount"}

\* C9: every normalisation rule is monotonic over its domain (non-decreasing for
\* commitFreq, contributorCount, busFactor, badgeCount, ossfScore; non-increasing for
\* issueResTime, prReviewDuration, developerChurn, vulnerabilityCount; false -> 0 and
\* true -> 10 for testFolderExists) and clamped at both ends: issueResTime is 10 at or
\* below 24h and 0 at or above 168h, prReviewDuration 10 at or below 6h and 0 at or
\* above 72h.
C9_MonotonicAndClamped ==
    normCall # NONE =>
        /\ (prevNormCall # NONE /\ prevNormCall.key = normCall.key
              /\ normCall.key \in Rising \cup Falling
              /\ RLe(prevNormCall.raw.v, normCall.raw.v)) =>
                IF normCall.key \in Rising
                THEN RLe(prevNormCall.out, normCall.out)
                ELSE RLe(normCall.out, prevNormCall.out)
        /\ normCall.key = "testFolderExists" =>
                normCall.out = (IF normCall.raw.v THEN Whole(10) ELSE Whole(0))
        /\ (normCall.key = "issueResTime" /\ RLe(normCall.raw.v, Whole(24))) =>
                normCall.out = Whole(10)
        /\ (normCall.key = "issueResTime" /\ RGe(normCall.raw.v, Whole(168))) =>
                normCall.out = Whole(0)
        /\ (normCall.key = "prReviewDuration" /\ RLe(normCall.raw.v, Whole(6))) =>
                normCall.out = Whole(10)
        /\ (normCall.key = "prReviewDuration" /\ RGe(normCall.raw.v, Whole(72))) =>
                normCall.out = Whole(0)

OthersFixed(key) == \A k \in KeySet \ {key} : metrics'[k] = metrics[k]

Increased(key) ==
    /\ ~IsNullish(metrics[key]) /\ ~IsNullish(metrics'[key])
    /\ RLt(metrics[key].v, metrics'[key].v)
    /\ OthersFixed(key)

\* C10: with every other entry held fixed, a call with a larger vulnerabilityCount
\* never returns a larger score, a call with a larger commitFreq never returns a
\* smaller one, and at or beyond 30 commits/week the score does not change.
C10_CompositeMonotone ==
    [][ (score # NONE /\ score' # NONE) =>
          /\ Increased("vulnerabilityCount") => RLe(score', score)
          /\ Increased("commitFreq") => RLe(score, score')
          /\ (Increased("commitFreq") /\ RGe(metrics["commitFreq"].v, Whole(30))) =>
                score' = score ]_vars

C10_Witness ==
    /\ score # NONE
    /\ metrics["vulnerabilityCount"] = JInt(6 * MaxVulnSteps)
    /\ metrics["commitFreq"] = JNum(Rat(65 * MaxCommitSteps, 2))
    /\ PresentKeys(metrics) = KeySet

----------------------------------------------------------------------------
(* Claims about the weight table and the request handler *)

RECURSIVE SumWeights(_, _)
SumWeights(w, S) ==
    IF S = {} THEN 0
    ELSE LET k == CHOOSE x \in S : TRUE IN w[k] + SumWeights(w, S \ {k})

\* C4: the weight table has exactly the ten metric keys, every weight is a
\* non-negative integer, the weights sum to 100, and no operation changes the table.
C4_WeightTable ==
    /\ DOMAIN weights =
          {"commitFreq", "issueResTime", "prReviewDuration", "contributorCount",
           "busFactor", "developerChurn", "testFolderExists", "badgeCount",
           "vulnerabilityCount", "ossfScore"}
    /\ \A k \in DOMAIN weights : weights[k] \in Nat
    /\ SumWeights(weights, DOMAIN weights) = 100
    /\ weights["commitFreq"] = 10 /\ weights["issueResTime"] = 12
    /\ weights["prReviewDuration"] = 12 /\ weights["contributorCount"] = 8
    /\ weights["busFactor"] = 10 /\ weights["developerChurn"] = 10
    /\ weights["testFolderExists"] = 10 /\ weights["badgeCount"] = 5
    /\ weights["vulnerabilityCount"] = 13 /\ weights["ossfScore"] = 10

\* a request has been answered, so aggregateScore and normalise have run
C4_Witness == pc = "done" /\ sent = 1 /\ metrics["overallScore"] # JNull

\* what the statements after the await make of the value a task resolved with
MetricsComputedFrom(task, v) ==
    CASE task = "commitData" -> metrics["commitFreq"] = computeWeeklyAverage(v)
      [] task = "issues" -> metrics["issueResTime"] = medianResolutionTime(v)
      [] task = "prs" -> metrics["prReviewDuration"] = medianPRDuration(v)
      [] task = "contributors" ->
            /\ metrics["contributorCount"] = JInt(Len(v.v))
            /\ metrics["busFactor"] = estimateBusFactor(v)
      [] task = "testExists" -> metrics["testFolderExists"] = v
      [] task = "readme" -> metrics["badgeCount"] = countBadges(v)
      [] task = "alerts" -> metrics["vulnerabilityCount"] = countVulnerabilities(v)
      [] task = "churn" -> metrics["developerChurn"] = v

\* C5: whatever subset of the eight fetch tasks fails, every task that succeeds has
\* its metric(s) computed from its data, and every task that fails leaves its metric
\* null and an entry under the metric's name in the errors map, holding the message.
C5_FetchIsolation ==
    pc = "done" =>
        \A task \in Tasks :
            LET r == Fate(task, api[task]) IN
            IF r.ok THEN MetricsComputedFrom(task, r.value)
            ELSE /\ response.metrics[ErrKey(task)] = JNull
                 /\ response.errors # NoField
                 /\ response.errors[ErrKey(task)] = r.message

\* C6: whichever tasks fail, once all eight have settled getRepoScore sends exactly
\* one JSON response with the metrics, an integer overallScore and (if any task
\* failed) the errors map; it never ends in next(err), a rejection or no answer.
C6_AlwaysAnswers ==
    /\ [](sent <= 1 /\ ~nextCalled /\ pc \notin {"rejected", "failed"})
    /\ [](pc = "done" =>
            /\ sent = 1
            /\ response.metrics = metrics
            /\ metrics["overallScore"].t = "number" /\ IsInteger(metrics["overallScore"].v)
            /\ (response.errors = NoField) = (ErrorKeysOf(errors) = {})
            /\ response.errors # NoField => response.errors = errors)
    /\ ((pc = "awaiting" /\ AllSettled) ~> (pc = "done" /\ sent = 1))

\* a request all of whose eight fetches failed, answered all the same
C6_Witness ==
    pc = "done" /\ sent = 1 /\ ErrorKeysOf(errors) = ErrKeys /\ response.errors = errors

\* C14: every busFactor the handler places in the metric set it hands to the
\* aggregator is an integer >= 1, whatever contributor list the fetch returned,
\* the empty list included.
C14_BusFactorAtLeastOne ==
    (pc = "done" /\ metrics["busFactor"] # JNull) =>
        /\ metrics["busFactor"].t = "number"
        /\ IsInteger(metrics["busFactor"].v)
        /\ metrics["busFactor"].v.n >= 1

\* the page the loop of getDependabotAlerts stops at is a 403 or a 404
AlertsDenied(pages) ==
    \E i \in 1..Len(pages) :
        /\ ~pages[i].ok /\ pages[i].status \in {"403", "404"}
        /\ \A j \in 1..(i - 1) : pages[j].ok /\ Len(pages[j].data) = PerPage

AlertsFailedOtherwise(pages) ==
    \E i \in 1..Len(pages) :
        /\ ~pages[i].ok /\ pages[i].status \notin {"403", "404"}
        /\ \A j \in 1..(i - 1) : pages[j].ok /\ Len(pages[j].data) = PerPage

SampledLogins(ans) == {Prop(ans.data[i], "login") : i \in 1..Len(ans.data)}
OlderWindow(ans) == {l \in SampledLogins(ans) : l \in ans.commits.old}
RecentWindow(ans) == {l \in SampledLogins(ans) : l \in ans.commits.recent}

\* every call getDeveloperChurn makes to the collaborator succeeds
ChurnFetched(ans) == ans.ok /\ ans.status = "200" /\ ans.commits.ok

\* C21: developer churn is the percentage of the older-window contributors absent from
\* the recent window, and unavailable (null, not zero) when the older window is empty;
\* when the churn fetch succeeds with a non-empty older window, the response's
\* developerChurn is that percentage in 0..100.
C21_ChurnIsShareLeft ==
    (pc = "done" /\ ChurnFetched(Answer("churn", api["churn"]))) =>
        LET old == OlderWindow(Answer("churn", api["churn"]))
            recent == RecentWindow(Answer("churn", api["churn"]))
        IN  IF old = {} THEN response.metrics["developerChurn"] = JNull
            ELSE /\ response.metrics["developerChurn"] =
                        JNum(Rat(100 * Cardinality(old \ recent), Cardinality(old)))
                 /\ RLe(Whole(0), response.metrics["developerChurn"].v)
                 /\ RLe(response.metrics["developerChurn"].v, Whole(100))

\* the page the loop of getDependabotAlerts ends at
LastAsked(pages) == pages[Len(pages)]

\* the k-th alert of all pages taken in order, every page before the last being full
AlertInOrder(pages, k) ==
    LET a == pages[((k - 1) \div PerPage) + 1].data[((k - 1) % PerPage) + 1]
    IN  JObject([number |-> a.f.number, state |-> a.f.state])

\* C22: getDependabotAlerts returns an empty array whenever a page request fails with
\* 403 or 404, even after earlier pages were collected, rethrows a failure with any
\* other status, and otherwise returns the alerts of all pages in order, stopping
\* after the first page with fewer than 100 entries.
C22_AlertPages ==
    Called("getDependabotAlerts") =>
        LET pages == calcCall.arg
            last == LastAsked(pages)
        IN  IF ~last.ok
            THEN IF last.status \in {"403", "404"}
                 THEN calcCall.out = Fulfilled(JArr(<< >>))
                 ELSE calcCall.out = Rejected(last.message)
            ELSE /\ calcCall.out.ok
                 /\ calcCall.out.value.t = "array"
                 /\ Len(calcCall.out.value.v) = (Len(pages) - 1) * PerPage + Len(last.data)
                 /\ \A k \in 1..Len(calcCall.out.value.v) :
                        calcCall.out.value.v[k] = AlertInOrder(pages, k)

\* two full pages collected, then the third request is denied
C22_Witness ==
    /\ Called("getDependabotAlerts")
    /\ calcCall.arg = <<PageFrom(1, PerPage), PageFrom(1001, PerPage), Denied>>
    /\ calcCall.out = Fulfilled(JArr(<< >>))

\* what each task of a request resolves with after its catch callback, and what the
\* callbacks record, when the collaborator answers the request as `answers` says
ResolvedAlone(answers) ==
    [t \in Tasks |->
        Settled(IF Fate(t, answers[t]).ok THEN Fate(t, answers[t]).value ELSE JNull)]

RecordedAlone(answers) ==
    [k \in ErrKeys |->
        LET t == CHOOSE u \in Tasks : ErrKey(u) = k
        IN  IF Fate(t, answers[t]).ok THEN Absent ELSE Fate(t, answers[t]).message]

\* the response the request produces when it is the only one being handled
ResponseAlone(answers) ==
    ResumeOutcome(weightTable, MetricsLiteral, ResolvedAlone(answers),
                  RecordedAlone(answers)).response

\* C23: two scoring requests handled at the same time, their fetch completions
\* interleaved in any order, share no mutable state: each response's metrics and
\* errors hold only the values and failures of that request's own tasks, and each
\* response is the one the request produces when run alone.
C23_RequestsIsolated ==
    /\ pc = "done" => response = ResponseAlone(api)
    /\ (second # NONE /\ second.pc = "done") => second.response = ResponseAlone(second.api)

\* both requests answered, the first for the failing and the second for the healthy
\* repository
C23_Witness ==
    /\ pc = "done" /\ api = Failing
    /\ second # NONE /\ second.pc = "done" /\ second.api = Healthy
    /\ response.errors["commitFreq"] # Absent
    /\ second.response.errors["commitFreq"] = Absent
    /\ second.response.metrics["commitFreq"] # JNull

\* while the handler waits, every task has been started and nothing has been computed
NothingComputedYet ==
    pc = "awaiting" =>
        /\ \A t \in Tasks : calls[t].st \in {"pending", "settled"}
        /\ metrics = MetricsLiteral
        /\ response = NONE /\ sent = 0

\* the handler reaches its await with all eight tasks started and none settled
StartsAllEight ==
    (pc # "awaiting" /\ pc' = "awaiting") =>
        \A t \in Tasks : calls'[t] = Pending /\ api'[t] = "none"

\* a task the collaborator has answered is settled for the rest of the request: it is
\* not started again, whether it failed or not
NeverStartedAgain ==
    pc = "awaiting" =>
        \A t \in Tasks : api[t] # "none" => (api'[t] = api[t] /\ calls'[t] = calls[t])

\* metrics and the response change only once all eight tasks have settled
ComputesAfterAllSettled ==
    (pc = "awaiting" /\ (metrics' # metrics \/ response' # response \/ sent' # sent)) =>
        AllSettled /\ \A t \in Tasks : api[t] # "none"

\* C24: in getRepoScore all eight fetch tasks are started before any is awaited, each
\* is started exactly once per request and never retried after a failure, and no
\* metric and no overall score is computed until every one of the eight has settled.
C24_StartAllThenAwaitAll ==
    /\ []NothingComputedYet
    /\ [][StartsAllEight /\ NeverStartedAgain /\ ComputesAfterAllSettled]_vars

\* a request answered after a failed commit fetch and a failed alert fetch
C24_Witness ==
    /\ pc = "done" /\ sent = 1 /\ AllSettled
    /\ api["commitData"] = "rateLimited" /\ api["alerts"] = "serverError"
    /\ calls["commitData"] = Settled(JNull)
    /\ response.metrics["overallScore"] # JNull

RECURSIVE WeightSum(_, _)
WeightSum(w, S) ==
    IF S = {} THEN 0
    ELSE LET k == CHOOSE x \in S : TRUE IN w[k] + WeightSum(w, S \ {k})

\* every declared metric has a weight and the weights sum to 100
ValidWeights(w) == KeySet \subseteq DOMAIN w /\ WeightSum(w, DOMAIN w) = 100

FailedTasks == {t \in Tasks : ~Fate(t, api[t]).ok}

\* C27: in every response of getRepoScore, for each metric key other than
\* developerChurn, the metric is null if and only if the errors map has an entry under
\* that key; a fetch that succeeds (an empty list and an empty README included) always
\* yields a present metric; the response carries an errors field exactly when at least
\* one fetch task failed.
C27_NullIffError ==
    pc = "done" =>
        /\ \A k \in ErrKeys \ {"developerChurn"} :
              (response.metrics[k] = JNull) <=> (errors[k] # Absent)
        /\ \A t \in Tasks \ {"churn"} :
              Fate(t, api[t]).ok => response.metrics[ErrKey(t)] # JNull
        /\ (response.errors # NoField) <=> (FailedTasks # {})

\* C28: the response of getRepoScore (metrics, overallScore and errors map) depends only
\* on which fetch tasks failed and what the others returned, not on the order in which
\* the eight tasks complete: the catch callbacks write disjoint keys of errors, so every
\* interleaving of completions produces the same final metrics and errors.
C28_OrderOfCompletionIrrelevant ==
    /\ \A t, u \in Tasks : t # u => ErrKey(t) # ErrKey(u)
    /\ pc = "done" =>
          /\ response = ResponseAlone(api)
          /\ metrics = response.metrics
          /\ errors = RecordedAlone(api)

\* a response after the readme and the alert fetch both failed, with different messages
C28_Witness ==
    /\ pc = "done" /\ sent = 1
    /\ api["readme"] = "notFound" /\ api["alerts"] = "serverError"
    /\ response.errors["badgeCount"] = <<"Not Found">>
    /\ response.errors["vulnerabilityCount"] = <<"Server Error">>

\* the nine weighted metrics other than ossfScore
NineOthers == KeySet \ {"ossfScore"}

\* the weighted sum of the metrics of m present under the keys in S
RECURSIVE WeightedSum(_, _)
WeightedSum(m, S) ==
    IF S = {} THEN Whole(0)
    ELSE LET k == CHOOSE x \in S : TRUE
         IN  RAdd(IF m[k] \in {JNull, JUndef} THEN Whole(0)
                  ELSE RDiv(RMul(normalise(k, m[k]), Whole(weightTable[k])), Whole(10)),
                  WeightedSum(m, S \ {k}))

====
